---- MODULE Spec2Model ----
(***************************************************************************)
(* Model of npbrain/integration/integrator.py: the scheme registry         *)
(* (get_integrator), the Integrator base class and the ten scheme classes  *)
(* with their numeric step closures (get_np_step) and the generated code   *)
(* (get_nb_step), driven by the global configuration in `profile`.         *)
(*                                                                         *)
(* Numbers are exact: a rational is a pair <<n, d>> in lowest terms with   *)
(* d > 0, and a value is a + b*sqrt(r) with a, b, r rational, which is     *)
(* closed under everything the closures compute (r is the step size dt).   *)
(*                                                                         *)
(* The module also models brainpy/dyn: the ConstantDelay ring buffer of    *)
(* base.py and the LIF and HindmarshRose neuron groups of                  *)
(* neurons/reduced_models.py, each driven by a runner that calls update    *)
(* at the times i * dt.                                                    *)
(***************************************************************************)
EXTENDS Integers, Sequences, FiniteSets, TLC

VARIABLES profile, diff_eq, integrators, last, group, delay, run

vars == <<profile, diff_eq, integrators, last, group, delay, run>>

\* ------------------------------------------------------------------------
\* Exact arithmetic
\* ------------------------------------------------------------------------

Abs(n) == IF n < 0 THEN -n ELSE n

RECURSIVE GCD(_, _)
GCD(a, b) == IF b = 0 THEN a ELSE GCD(b, a % b)

\* the rational n/d in lowest terms, d > 0
Q(n, d) ==
    LET g == GCD(Abs(n), Abs(d))
        s == IF d < 0 THEN -1 ELSE 1
    IN  <<s * (n \div g), s * (d \div g)>>

Zero == <<0, 1>>
One == <<1, 1>>
Half == <<1, 2>>

RAdd(x, y) == Q(x[1] * y[2] + y[1] * x[2], x[2] * y[2])
RNeg(x) == <<-x[1], x[2]>>
RSub(x, y) == RAdd(x, RNeg(y))
RMul(x, y) == Q(x[1] * y[1], x[2] * y[2])
\* x / y for y # 0
RDiv(x, y) == Q(x[1] * y[2], x[2] * y[1])

\* a value a + b*sqrt(r); r is Zero exactly when b is Zero
V(a, b, r) == IF b = Zero THEN [a |-> a, b |-> Zero, r |-> Zero]
              ELSE [a |-> a, b |-> b, r |-> r]
VQ(q) == V(q, Zero, Zero)
Radicand(x, y) == IF x.b # Zero THEN x.r ELSE y.r

VAdd(x, y) == V(RAdd(x.a, y.a), RAdd(x.b, y.b), Radicand(x, y))
VNeg(x) == V(RNeg(x.a), RNeg(x.b), x.r)
VSub(x, y) == VAdd(x, VNeg(y))
VMul(x, y) ==
    LET r == Radicand(x, y)
    IN  V(RAdd(RMul(x.a, y.a), RMul(RMul(x.b, y.b), r)),
          RAdd(RMul(x.a, y.b), RMul(x.b, y.a)), r)
\* a rational times a value
VScale(q, x) == V(RMul(q, x.a), RMul(q, x.b), x.r)

IsSquare(n) == \E k \in 0..n : k * k = n
ISqrt(n) == CHOOSE k \in 0..n : k * k = n

\* np.sqrt of a non-negative rational
VSqrt(q) ==
    IF IsSquare(q[1]) /\ IsSquare(q[2])
    THEN VQ(Q(ISqrt(q[1]), ISqrt(q[2])))
    ELSE V(Zero, One, q)

\* ------------------------------------------------------------------------
\* Strings: a string is a sequence of one-character strings
\* ------------------------------------------------------------------------

\* <<lower, upper>> for the cased characters
Letters ==
    << <<"a", "A">>, <<"b", "B">>, <<"c", "C">>, <<"d", "D">>, <<"e", "E">>,
       <<"f", "F">>, <<"g", "G">>, <<"h", "H">>, <<"i", "I">>, <<"j", "J">>,
       <<"k", "K">>, <<"l", "L">>, <<"m", "M">>, <<"n", "N">>, <<"o", "O">>,
       <<"p", "P">>, <<"q", "Q">>, <<"r", "R">>, <<"s", "S">>, <<"t", "T">>,
       <<"u", "U">>, <<"v", "V">>, <<"w", "W">>, <<"x", "X">>, <<"y", "Y">>,
       <<"z", "Z">> >>

LowerChar(c) ==
    IF \E i \in DOMAIN Letters : Letters[i][2] = c
    THEN Letters[CHOOSE i \in DOMAIN Letters : Letters[i][2] = c][1]
    ELSE c

UpperChar(c) ==
    IF \E i \in DOMAIN Letters : Letters[i][1] = c
    THEN Letters[CHOOSE i \in DOMAIN Letters : Letters[i][1] = c][2]
    ELSE c

\* str.lower()
Lower(s) == [i \in 1..Len(s) |-> LowerChar(s[i])]

\* ------------------------------------------------------------------------
\* get_integrator
\* ------------------------------------------------------------------------

N_euler == <<"e", "u", "l", "e", "r">>
N_midpoint == <<"m", "i", "d", "p", "o", "i", "n", "t">>
N_heun == <<"h", "e", "u", "n">>
N_rk2 == <<"r", "k", "2">>
N_rk3 == <<"r", "k", "3">>
N_rk4 == <<"r", "k", "4">>
N_rk4_alternative ==
    <<"r", "k", "4", "_", "a", "l", "t", "e", "r", "n", "a", "t", "i", "v", "e">>
N_exponential == <<"e", "x", "p", "o", "n", "e", "n", "t", "i", "a", "l">>
N_milstein == <<"m", "i", "l", "s", "t", "e", "i", "n">>
N_milstein_ito == N_milstein \o <<"_", "i", "t", "o">>
N_milstein_stra == N_milstein \o <<"_", "s", "t", "r", "a">>

NoString == <<>>

Returned(v) == [raised |-> "None", value |-> v, message |-> NoString]
Raised(exc, msg) == [raised |-> exc, value |-> "None", message |-> msg]

\* the if/elif chain of get_integrator over the lower-cased name; the text
\* f'Unknown method: {method}.' is kept as the string it formats in
get_integrator_branch(m) ==
    IF m = N_euler THEN Returned("Euler")
    ELSE IF m = N_midpoint THEN Returned("MidPoint")
    ELSE IF m = N_heun THEN Returned("Heun")
    ELSE IF m = N_rk2 THEN Returned("RK2")
    ELSE IF m = N_rk3 THEN Returned("RK3")
    ELSE IF m = N_rk4 THEN Returned("RK4")
    ELSE IF m = N_rk4_alternative THEN Returned("RK4Alternative")
    ELSE IF m = N_exponential THEN Returned("ExponentialEuler")
    ELSE IF m = N_milstein THEN Returned("MilsteinIto")
    ELSE IF m = N_milstein_ito THEN Returned("MilsteinIto")
    ELSE IF m = N_milstein_stra THEN Returned("MilsteinStra")
    ELSE Raised("ValueError", m)

\* get_integrator without the 'milstein_ito' branch
get_integrator_no_synonym(method) ==
    IF Lower(method) = N_milstein_ito THEN Raised("ValueError", Lower(method))
    ELSE get_integrator_branch(Lower(method))

\* get_integrator without method = method.lower()
get_integrator_case_sensitive(method) == get_integrator_branch(method)

\* method = method.lower(), then the chain
get_integrator(method) == get_integrator_branch(Lower(method))

\* ------------------------------------------------------------------------
\* profile: the global configuration the constructors read
\* ------------------------------------------------------------------------

DtValues == {Q(1, 10), Q(1, 4)}

ProfileInit == [dt |-> Q(1, 10), numba_bk |-> FALSE, merge_integral |-> FALSE]

\* profile.get_dt(), profile.is_numba_bk() and profile._merge_integral
get_dt == profile.dt
is_numba_bk == profile.numba_bk
merge_integral == profile.merge_integral

\* ------------------------------------------------------------------------
\* DiffEquation objects
\* ------------------------------------------------------------------------

NoG == [callable |-> FALSE, kind |-> "None", value |-> Zero]
ConstG(q) == [callable |-> FALSE, kind |-> "const", value |-> q]
FuncG(k) == [callable |-> TRUE, kind |-> k, value |-> Zero]

\* what tools.get_func_scope collected for the user's function
ScopeInit == {"tau"}

DiffEquation(name, args, f, multi, g) ==
    [is_diff_eq |-> TRUE,
     func_name |-> name,
     var_name |-> "V",
     t_name |-> "t",
     func_args |-> args,
     f |-> f,
     g |-> g,
     is_stochastic |-> g # NoG,
     is_functional_noise |-> g.callable,
     is_multi_return |-> multi,
     func_scope |-> ScopeInit]

Equations ==
    { DiffEquation("int_decay", <<>>, "decay", FALSE, NoG),
      DiffEquation("int_drive", <<"a">>, "drive", FALSE, NoG),
      DiffEquation("int_linear", <<"a">>, "linear", TRUE, NoG),
      DiffEquation("int_sde_state", <<>>, "decay", FALSE, FuncG("state")),
      DiffEquation("int_sde_time", <<>>, "decay", FALSE, FuncG("time")),
      DiffEquation("int_sde_const", <<>>, "decay", FALSE, ConstG(Half)),
      DiffEquation("int_sde_multi", <<"a">>, "linear", TRUE, FuncG("state")),
      DiffEquation("int_sde_multi_const", <<"a">>, "linear", TRUE, ConstG(Half)) }

\* the equations ExponentialEuler is made for: the drift returns the
\* derivative and then the linear coefficient
ExpEquations ==
    { DiffEquation("int_scale", <<"a">>, "scale", FALSE, NoG),
      DiffEquation("int_scale_fn", <<"a">>, "scale", FALSE, FuncG("state")),
      DiffEquation("int_scale_const", <<"a">>, "scale", FALSE, ConstG(Half)),
      DiffEquation("int_linear", <<"a">>, "linear", TRUE, NoG),
      DiffEquation("int_sde_multi", <<"a">>, "linear", TRUE, FuncG("state")),
      DiffEquation("int_sde_multi_const", <<"a">>, "linear", TRUE, ConstG(Half)) }

\* DiffEquation objects an analysis left incomplete: no derivative
\* expression, or is_stochastic set while g is None
MalformedEquations ==
    { DiffEquation("int_empty", <<>>, "none", FALSE, NoG),
      DiffEquation("int_empty_sde", <<>>, "none", FALSE, ConstG(Half)),
      [DiffEquation("int_no_g", <<>>, "decay", FALSE, NoG)
          EXCEPT !.is_stochastic = TRUE],
      [DiffEquation("int_no_g_multi", <<"a">>, "linear", TRUE, NoG)
          EXCEPT !.is_stochastic = TRUE] }

\* an argument that is no DiffEquation (the isinstance test of Integrator.__init__)
NotAnEquation ==
    [is_diff_eq |-> FALSE, func_name |-> "None", var_name |-> "None",
     t_name |-> "None", func_args |-> <<>>, f |-> "None", g |-> NoG,
     is_stochastic |-> FALSE, is_functional_noise |-> FALSE,
     is_multi_return |-> FALSE, func_scope |-> {}]

\* the drift functions: the tuple of values the user's function returns
FEval(f, y, t, args) ==
    CASE f = "decay" -> <<VNeg(y)>>
      [] f = "drive" -> <<VAdd(VScale(args[1], y), VQ(t))>>
      [] f = "linear" -> <<VScale(args[1], y), VQ(args[1]), VAdd(y, VQ(t))>>
      [] f = "scale" -> <<VScale(args[1], y), VQ(args[1])>>

\* the diffusion functions
GEval(g, y, t, args) ==
    CASE g.kind = "state" -> VScale(Half, y)
      [] g.kind = "time" -> VQ(RAdd(One, t))

\* ------------------------------------------------------------------------
\* Expressions and statements of the generated code
\* ------------------------------------------------------------------------

\* An expression of the code text: a name, a number, or an operator applied
\* to expressions. A statement is a pair <<name assigned, expression>>.
Sym(n) == [op |-> "sym", name |-> n, val |-> VQ(Zero), kids |-> <<>>]
Lit(v) == [op |-> "lit", name |-> "", val |-> v, kids |-> <<>>]
Op(o, kids) == [op |-> o, name |-> "", val |-> VQ(Zero), kids |-> kids]

\* the names an expression mentions
RECURSIVE Identifiers(_)
Identifiers(e) ==
    IF e.op = "sym" THEN {e.name}
    ELSE UNION {Identifiers(e.kids[i]) : i \in DOMAIN e.kids}

\* tools.word_replace on one expression: every whole name in DOMAIN subs
\* is replaced by subs[name]
RECURSIVE Replace(_, _)
Replace(e, subs) ==
    IF e.op = "sym"
    THEN IF e.name \in DOMAIN subs THEN Sym(subs[e.name]) ELSE e
    ELSE [e EXCEPT !.kids = [i \in DOMAIN e.kids |-> Replace(e.kids[i], subs)]]

\* tools.word_replace on the code text: assigned names are words too
word_replace(lines, subs) ==
    [i \in DOMAIN lines |->
        << IF lines[i][1] \in DOMAIN subs THEN subs[lines[i][1]] ELSE lines[i][1],
           Replace(lines[i][2], subs) >>]

\* The expressions of the user's function, in order, the derivative last:
\* what DiffEquation keeps for each drift of FEval.
f_expressions(eq) ==
    CASE eq.f = "decay" ->
           << <<"dV", Op("*", <<Lit(VQ(<<-1, 1>>)), Sym(eq.var_name)>>)>> >>
      [] eq.f = "drive" ->
           << <<"dV", Op("+", << Op("*", <<Sym("a"), Sym(eq.var_name)>>),
                                 Sym(eq.t_name) >>)>> >>
      [] eq.f = "linear" ->
           << <<"aux", Op("+", <<Sym(eq.var_name), Sym(eq.t_name)>>)>>,
              <<"dV", Op("*", <<Sym("a"), Sym(eq.var_name)>>)>> >>
      [] eq.f = "scale" ->
           << <<"dV", Op("*", <<Sym("a"), Sym(eq.var_name)>>)>> >>
      [] OTHER -> <<>>

\* the return expressions of the user's function after the derivative
f_returns(eq) ==
    CASE eq.f = "linear" -> <<"dV", "a", "aux">>
      [] eq.f = "scale" -> <<"dV", "a">>
      [] OTHER -> <<"dV">>

g_expressions(eq) ==
    CASE eq.g.kind = "state" ->
           << <<"dg", Op("*", <<Lit(VQ(Half)), Sym(eq.var_name)>>)>> >>
      [] eq.g.kind = "time" ->
           << <<"dg", Op("+", <<Lit(VQ(One)), Sym(eq.t_name)>>)>> >>
      [] OTHER -> <<>>

\* DiffEquation.f_expr_names and g_expr_names: the user's intermediate names
expr_names(eq) ==
    {f_expressions(eq)[i][1] : i \in 1..(Len(f_expressions(eq)) - 1)}
        \cup {g_expressions(eq)[i][1] : i \in 1..(Len(g_expressions(eq)) - 1)}

\* DiffEquation.get_f_expressions / get_g_expressions: the expressions with
\* the last one assigned to _df{var}_dt / _dg{var}_dt
Renamed(exprs, final) ==
    [i \in DOMAIN exprs |->
        IF i = Len(exprs) THEN <<final, exprs[i][2]>> ELSE exprs[i]]

get_f_expressions(eq) ==
    Renamed(f_expressions(eq), "_df" \o eq.var_name \o "_dt")

get_g_expressions(eq) ==
    Renamed(g_expressions(eq), "_dg" \o eq.var_name \o "_dt")

\* DiffEquation.replace_f_expressions(name, y_sub, t_sub): the expressions
\* that mention a replaced name, re-written over the substitutes and renamed
\* with the stage tag; subs maps the replaced names to their substitutes
RECURSIVE ReplaceFrom(_, _, _, _)
ReplaceFrom(exprs, i, tag, subs) ==
    IF i > Len(exprs) THEN <<>>
    ELSE IF Identifiers(exprs[i][2]) \cap DOMAIN subs = {}
         THEN ReplaceFrom(exprs, i + 1, tag, subs)
         ELSE LET new == exprs[i][1] \o "_" \o tag
              IN  << <<new, Replace(exprs[i][2], subs)>> >>
                    \o ReplaceFrom(exprs, i + 1, tag,
                                   (exprs[i][1] :> new) @@ subs)

replace_f_expressions(eq, tag, subs) == ReplaceFrom(f_expressions(eq), 1, tag, subs)

\* ------------------------------------------------------------------------
\* Step closures and generated code, as the constructors build them
\* ------------------------------------------------------------------------

\* A closure int_f / int_fg: the class whose get_np_step defined it, the
\* branch of that method it was defined in, and the values it captured.
Closure(cls, branch, beta, eq) ==
    [cls |-> cls, branch |-> branch, dt |-> get_dt, beta |-> beta,
     f |-> eq.f, g |-> eq.g]

NoFunc ==
    [cls |-> "None", branch |-> "None", dt |-> Zero, beta |-> Zero,
     f |-> "None", g |-> NoG]

\* The text get_nb_step returns: the method whose template produced it,
\* the numbers formatted into it, and its statements.
Code(gen, beta, eq, lines) ==
    [gen |-> gen, dt |-> get_dt, beta |-> beta, func_name |-> eq.func_name,
     lines |-> lines]

NoCode ==
    [gen |-> "None", dt |-> Zero, beta |-> Zero, func_name |-> "None",
     lines |-> <<>>]

NpOk(c) == [raised |-> "None", func |-> c]
NpRaise(exc) == [raised |-> exc, func |-> NoFunc]
NbOk(c) == [raised |-> "None", code |-> c]
NbRaise(exc) == [raised |-> exc, code |-> NoCode]

\* Inside a class body Python rewrites a name that starts with two
\* underscores, so a parameter written __beta in class C is named _C__beta.
\* A keyword in a call is passed as written.
Mangled(cls, ident) == [owner |-> cls, ident |-> ident]
AsWritten(ident) == [owner |-> "", ident |-> ident]

Branch(eq) ==
    IF eq.is_stochastic
    THEN IF eq.g.callable
         THEN IF eq.is_multi_return THEN "sde_fn_multi" ELSE "sde_fn"
         ELSE IF eq.is_multi_return THEN "sde_const_multi" ELSE "sde_const"
    ELSE IF eq.is_multi_return THEN "ode_multi" ELSE "ode"

\* exprs[:-1], then the last expression assigned to name
Staged(exprs, name) ==
    [i \in DOMAIN exprs |->
        IF i = Len(exprs) THEN <<name, exprs[i][2]>> ELSE exprs[i]]

\* The end of every get_nb_step: the line _{func_name}_res = var, returns[1:]
\* and word_replace over func_args + f_expr_names + g_expr_names
Finish(eq, lines) ==
    LET res == << "_" \o eq.func_name \o "_res",
                  Op("tuple", <<Sym(eq.var_name)>> \o
                       [i \in 1..(Len(f_returns(eq)) - 1) |->
                            Sym(f_returns(eq)[i + 1])]) >>
        words == {eq.func_args[i] : i \in DOMAIN eq.func_args}
                     \cup expr_names(eq)
        subs == [n \in words |-> "_" \o eq.func_name \o "_" \o n]
    IN  word_replace(Append(lines, res), subs)

\* var + dfdt * dt, the deterministic part of the update expression
Update(eq, dfdt) ==
    Op("+", << Sym(eq.var_name), Op("*", <<Sym(dfdt), Lit(VQ(get_dt))>>) >>)

\* Euler.get_nb_step: the code lines
Euler_code_lines(eq) ==
    LET v == eq.var_name
        dfdt == "_df" \o v \o "_dt"
        dW == "_" \o v \o "_dW"
        dg == "_dg" \o v \o "_dt"
        noise == IF ~eq.is_stochastic THEN <<>>
                 ELSE << <<dW, Op("normal", <<Sym(v)>>)>> >> \o
                      (IF eq.is_functional_noise THEN get_g_expressions(eq)
                       ELSE << <<dg, Lit(VQ(eq.g.value))>> >>)
        update == IF ~eq.is_stochastic THEN Update(eq, dfdt)
                  ELSE Op("+", << Update(eq, dfdt),
                                  Op("*", << Lit(VSqrt(get_dt)),
                                             Op("*", <<Sym(dW), Sym(dg)>>) >>) >>)
    IN  Finish(eq, get_f_expressions(eq) \o noise \o << <<v, update>> >>)

\* RK2.get_nb_step: the code lines (deterministic equations)
RK2_code_lines(eq, beta) ==
    LET v == eq.var_name
        k1n == "_df" \o v \o "_dt_k1"
        k2n == "_df" \o v \o "_dt_k2"
        dfdt == "_df" \o v \o "_dt"
        y_1_to_2 == "_" \o eq.func_name \o "_" \o v \o "_k1_to_k2"
        t_1_to_2 == "_" \o eq.func_name \o "_t_k1_to_k2"
        k1 == Staged(get_f_expressions(eq), k1n)
        inc == << <<y_1_to_2, Op("+", << Sym(v),
                        Op("*", <<Lit(VQ(RMul(beta, get_dt))), Sym(k1n)>>) >>)>>,
                  <<t_1_to_2, Op("+", << Sym(eq.t_name),
                                         Lit(VQ(RMul(beta, get_dt))) >>)>> >>
        k2_expressions == replace_f_expressions(eq, "k2",
                              (v :> y_1_to_2) @@ (eq.t_name :> t_1_to_2))
        coefficient2 == RDiv(One, RMul(Q(2, 1), beta))
        coefficient1 == RSub(One, coefficient2)
        final == IF Len(k2_expressions) > 0
                 THEN Staged(k2_expressions, k2n) \o
                      << <<dfdt, Op("+", <<
                            Op("*", <<Lit(VQ(coefficient1)), Sym(k1n)>>),
                            Op("*", <<Lit(VQ(coefficient2)), Sym(k2n)>>) >>)>> >>
                 ELSE << <<dfdt, Sym(k1n)>> >>
    IN  Finish(eq, k1 \o inc \o final \o << <<v, Update(eq, dfdt)>> >>)

\* the average (a + b) / 2 of two names
Mean(a, b) == Op("*", <<Lit(VQ(Half)), Op("+", <<Sym(a), Sym(b)>>)>>)

\* Heun.get_nb_step: the code lines (stochastic, callable g)
Heun_code_lines(eq) ==
    LET v == eq.var_name
        dW == "_" \o v \o "_dW"
        fk1 == "_df" \o v \o "_dt_k1"
        fk2 == "_df" \o v \o "_dt_k2"
        gk1 == "_dg" \o v \o "_dt_k1"
        gk2 == "_dg" \o v \o "_dt_k2"
        dfdt == "_df" \o v \o "_dt"
        dgdt == "_dg" \o v \o "_dt"
        k1 == "_" \o eq.func_name \o "_k1"
        head == Staged(get_f_expressions(eq), fk1)
                  \o << <<dW, Op("*", << Lit(VSqrt(get_dt)),
                                         Op("normal", <<Sym(v)>>) >>)>> >>
                  \o Staged(get_g_expressions(eq), gk1)
                  \o << <<k1, Op("+", << Op("+", << Sym(v),
                                  Op("*", <<Sym(fk1), Lit(VQ(get_dt))>>) >>),
                                  Op("*", <<Sym(gk1), Sym(dW)>>) >>)>> >>
        f_k2_expressions == replace_f_expressions(eq, "k2", (v :> k1))
        g_k2_expressions == replace_f_expressions(eq, "k2", (v :> k1))
        df == IF Len(f_k2_expressions) > 0
              THEN Staged(f_k2_expressions, fk2) \o << <<dfdt, Mean(fk1, fk2)>> >>
              ELSE << <<dfdt, Sym(fk1)>> >>
        dg == IF Len(g_k2_expressions) > 0
              THEN Staged(g_k2_expressions, gk2) \o << <<dgdt, Mean(gk1, gk2)>> >>
              ELSE << <<dgdt, Sym(gk1)>> >>
        update == Op("+", << Update(eq, dfdt),
                             Op("*", <<Sym(dgdt), Sym(dW)>>) >>)
    IN  Finish(eq, head \o df \o dg \o << <<v, update>> >>)

\* MilsteinIto.get_nb_step and MilsteinStra.get_nb_step: the code lines
\* (stochastic, callable g); ito tells the two high-order terms apart
Milstein_code_lines(eq, ito) ==
    LET v == eq.var_name
        dW == "_" \o v \o "_dW"
        dfdt == "_df" \o v \o "_dt"
        dgdt == "_dg" \o v \o "_dt"
        gk2 == "_dg" \o v \o "_dt_k2"
        high_order == "_dg" \o v \o "_high_order"
        k1 == "_" \o eq.func_name \o "_k1"
        head == get_f_expressions(eq)
                  \o << <<dW, Op("*", << Lit(VSqrt(get_dt)),
                                         Op("normal", <<Sym(v)>>) >>)>> >>
                  \o get_g_expressions(eq)
                  \o << <<k1, Op("+", << Update(eq, dfdt),
                                  Op("*", <<Sym(dgdt), Lit(VSqrt(get_dt))>>) >>)>> >>
        g_k2_expressions == replace_f_expressions(eq, "k2", (v :> k1))
        dW2 == Op("*", <<Sym(dW), Sym(dW)>>)
        ho == Op("*", << Op("*", <<
                  Lit(VScale(RDiv(One, RMul(Q(2, 1), get_dt)), VSqrt(get_dt))),
                  Op("-", <<Sym(gk2), Sym(dgdt)>>) >>),
                  IF ito THEN Op("-", <<dW2, Lit(VQ(get_dt))>>) ELSE dW2 >>)
        update == Op("+", << Op("+", << Update(eq, dfdt),
                                        Op("*", <<Sym(dgdt), Sym(dW)>>) >>),
                             Sym(high_order) >>)
    IN  Finish(eq, head \o Staged(g_k2_expressions, gk2)
                        \o << <<high_order, ho>>, <<v, update>> >>)

\* c1 * n1 + c2 * n2 + ... over terms <<c, n>>, c a number and n a name
RECURSIVE Lin(_)
Lin(terms) ==
    LET first == Op("*", <<Lit(VQ(terms[1][1])), Sym(terms[1][2])>>)
    IN  IF Len(terms) = 1 THEN first ELSE Op("+", <<first, Lin(Tail(terms))>>)

\* One later stage of a Runge-Kutta get_nb_step: the two increment lines
\* _{func}_{var}_{span} = var + terms and _{func}_t_{span} = t + c * dt,
\* then the drift expressions re-written over them, the last named
\* _df{var}_dt_{tag}
Stage(eq, tag, span, terms, c) ==
    LET y == "_" \o eq.func_name \o "_" \o eq.var_name \o "_" \o span
        t == "_" \o eq.func_name \o "_t_" \o span
    IN  << <<y, Op("+", <<Sym(eq.var_name), Lin(terms)>>)>>,
           <<t, Op("+", <<Sym(eq.t_name), Lit(VQ(RMul(c, get_dt)))>>)>> >>
          \o Staged(replace_f_expressions(eq, tag,
                        (eq.var_name :> y) @@ (eq.t_name :> t)),
                    "_df" \o eq.var_name \o "_dt_" \o tag)

\* whether the drift, re-written for a second stage, has any expression
HasStages(eq) ==
    Len(replace_f_expressions(eq, "k2",
            (eq.var_name :> "y") @@ (eq.t_name :> "t"))) > 0

\* RK3.get_nb_step: the code lines
RK3_code_lines(eq) ==
    LET v == eq.var_name
        dt == get_dt
        k(n) == "_df" \o v \o "_dt_k" \o n
        dfdt == "_df" \o v \o "_dt"
        first == Stage(eq, "k2", "k1_to_k2", << <<RDiv(dt, Q(2, 1)), k("1")>> >>, Half)
        final ==
            IF HasStages(eq)
            THEN Stage(eq, "k3", "k1_to_k3",
                            << <<RNeg(dt), k("1")>>, <<RMul(Q(2, 1), dt), k("2")>> >>, One)
                   \o << <<dfdt, Lin(<< <<Q(1, 6), k("1")>>, <<Q(4, 6), k("2")>>,
                                        <<Q(1, 6), k("3")>> >>)>> >>
            ELSE << <<dfdt, Sym(k("1"))>> >>
    IN  Finish(eq, Staged(get_f_expressions(eq), k("1")) \o first \o final
                     \o << <<v, Update(eq, dfdt)>> >>)

\* RK4.get_nb_step: the code lines
RK4_code_lines(eq) ==
    LET v == eq.var_name
        dt == get_dt
        k(n) == "_df" \o v \o "_dt_k" \o n
        dfdt == "_df" \o v \o "_dt"
        first == Stage(eq, "k2", "k1_to_k2", << <<RDiv(dt, Q(2, 1)), k("1")>> >>, Half)
        final ==
            IF HasStages(eq)
            THEN Stage(eq, "k3", "k2_to_k3", << <<RDiv(dt, Q(2, 1)), k("2")>> >>, Half)
                   \o Stage(eq, "k4", "k3_to_k4", << <<dt, k("3")>> >>, One)
                   \o << <<dfdt, Lin(<< <<Q(1, 6), k("1")>>, <<Q(2, 6), k("2")>>,
                                        <<Q(2, 6), k("3")>>, <<Q(1, 6), k("4")>> >>)>> >>
            ELSE << <<dfdt, Sym(k("1"))>> >>
    IN  Finish(eq, Staged(get_f_expressions(eq), k("1")) \o first \o final
                     \o << <<v, Update(eq, dfdt)>> >>)

\* RK4Alternative.get_nb_step: the code lines
RK4Alternative_code_lines(eq) ==
    LET v == eq.var_name
        dt == get_dt
        k(n) == "_df" \o v \o "_dt_k" \o n
        dfdt == "_df" \o v \o "_dt"
        first == Stage(eq, "k2", "k1_to_k2", << <<RDiv(dt, Q(3, 1)), k("1")>> >>, Q(1, 3))
        final ==
            IF HasStages(eq)
            THEN Stage(eq, "k3", "k1_to_k3",
                            << <<RNeg(RDiv(dt, Q(3, 1))), k("1")>>, <<dt, k("2")>> >>,
                            Q(2, 3))
                   \o Stage(eq, "k4", "k1_to_k4",
                            << <<dt, k("1")>>, <<RNeg(dt), k("2")>>, <<dt, k("3")>> >>,
                            One)
                   \o << <<dfdt, Lin(<< <<Q(1, 8), k("1")>>, <<Q(3, 8), k("2")>>,
                                        <<Q(3, 8), k("3")>>, <<Q(1, 8), k("4")>> >>)>> >>
            ELSE << <<dfdt, Sym(k("1"))>> >>
    IN  Finish(eq, Staged(get_f_expressions(eq), k("1")) \o first \o final
                     \o << <<v, Update(eq, dfdt)>> >>)

\* sympy.collect(df_expr, var)[var]: the coefficient of the variable in the
\* expanded derivative, for each drift of FEval
linear(eq) ==
    CASE eq.f = "decay" -> Lit(VQ(<<-1, 1>>))
      [] OTHER -> Sym("a")

\* ExponentialEuler.get_nb_step: the code lines (drifts that mention the
\* variable)
ExponentialEuler_code_lines(eq) ==
    LET v == eq.var_name
        s_df == "_df" \o v \o "_dt"
        s_linear == "_" \o v \o "_linear"
        s_linear_exp == "_" \o v \o "_linear_exp"
        s_df_part == "_" \o v \o "_df_part"
        s_dg_part == "_" \o v \o "_dg_part"
        dW == "_" \o v \o "_dW"
        df == << <<s_linear, linear(eq)>>,
                 <<s_linear_exp,
                   Op("exp", <<Op("*", <<Sym(s_linear), Lit(VQ(get_dt))>>)>>)>>,
                 <<s_df_part,
                   Op("*", << Op("/", << Op("-", <<Sym(s_linear_exp), Lit(VQ(One))>>),
                                         Sym(s_linear) >>),
                              Sym(s_df) >>)>> >>
        g_expr == IF eq.is_functional_noise THEN Sym("_dg" \o v \o "_dt")
                  ELSE Lit(VQ(eq.g.value))
        dg == IF ~eq.is_stochastic THEN <<>>
              ELSE << <<dW, Op("normal", <<Sym(v)>>)>> >>
                     \o (IF eq.is_functional_noise THEN get_g_expressions(eq)
                         ELSE <<>>)
                     \o << <<s_dg_part, Op("*", <<g_expr, Sym(dW)>>)>> >>
        update == IF ~eq.is_stochastic
                  THEN Op("+", <<Sym(v), Sym(s_df_part)>>)
                  ELSE Op("+", << Op("+", <<Sym(v), Sym(s_df_part)>>),
                                  Op("*", <<Sym(s_dg_part), Sym(s_linear_exp)>>) >>)
    IN  Finish(eq, get_f_expressions(eq) \o df \o dg \o << <<v, update>> >>)

Euler_get_nb_step(eq) ==
    NbOk(Code("Euler", Zero, eq, Euler_code_lines(eq)))

\* Euler.get_np_step; a g that is not callable must be a number
Euler_get_np_step(eq) ==
    IF eq.is_stochastic /\ ~eq.g.callable /\ eq.g.kind # "const"
    THEN NpRaise("AssertionError")
    ELSE NpOk(Closure("Euler", Branch(eq), Zero, eq))

RK2_get_nb_step(eq, beta) ==
    IF eq.is_stochastic THEN NbRaise("NotImplementedError")
    ELSE IF Len(f_expressions(eq)) = 0 THEN NbRaise("IndexError")
    ELSE NbOk(Code("RK2", beta, eq, RK2_code_lines(eq, beta)))

\* def get_np_step(diff_eqs, __beta) in class RK2; kw is the keyword the
\* caller passes beta under
RK2_get_np_step(eq, kw, beta) ==
    IF kw # Mangled("RK2", "__beta") THEN NpRaise("TypeError")
    ELSE IF eq.is_stochastic THEN NpRaise("NotImplementedError")
    ELSE NpOk(Closure("RK2", Branch(eq), beta, eq))

Heun_get_nb_step(eq) ==
    IF eq.is_stochastic
    THEN IF eq.g.callable
         THEN IF Len(f_expressions(eq)) = 0 THEN NbRaise("IndexError")
              ELSE IF ~eq.is_functional_noise THEN NbRaise("AssertionError")
              ELSE NbOk(Code("Heun", Zero, eq, Heun_code_lines(eq)))
         ELSE Euler_get_nb_step(eq)
    ELSE RK2_get_nb_step(eq, One)

Heun_get_np_step(eq) ==
    IF eq.is_stochastic
    THEN IF eq.g.callable
         THEN NpOk(Closure("Heun", Branch(eq), Zero, eq))
         ELSE Euler_get_np_step(eq)
    ELSE RK2_get_np_step(eq, AsWritten("__beta"), One)

MidPoint_get_nb_step(eq) ==
    IF eq.is_stochastic THEN NbRaise("NotImplementedError")
    ELSE RK2_get_nb_step(eq, Half)

MidPoint_get_np_step(eq) == RK2_get_np_step(eq, AsWritten("__beta"), Half)

RK3_get_nb_step(eq) ==
    IF eq.is_stochastic THEN NbRaise("NotImplementedError")
    ELSE IF Len(f_expressions(eq)) = 0 THEN NbRaise("IndexError")
    ELSE NbOk(Code("RK3", Zero, eq, RK3_code_lines(eq)))

RK3_get_np_step(eq) ==
    IF eq.is_stochastic THEN NpRaise("NotImplementedError")
    ELSE NpOk(Closure("RK3", Branch(eq), Zero, eq))

RK4_get_nb_step(eq) ==
    IF eq.is_stochastic THEN NbRaise("NotImplementedError")
    ELSE IF Len(f_expressions(eq)) = 0 THEN NbRaise("IndexError")
    ELSE NbOk(Code("RK4", Zero, eq, RK4_code_lines(eq)))

RK4_get_np_step(eq) ==
    IF eq.is_stochastic THEN NpRaise("NotImplementedError")
    ELSE NpOk(Closure("RK4", Branch(eq), Zero, eq))

RK4Alternative_get_nb_step(eq) ==
    IF eq.is_stochastic THEN NbRaise("NotImplementedError")
    ELSE IF Len(f_expressions(eq)) = 0 THEN NbRaise("IndexError")
    ELSE NbOk(Code("RK4Alternative", Zero, eq, RK4Alternative_code_lines(eq)))

RK4Alternative_get_np_step(eq) ==
    IF ~eq.is_diff_eq THEN NpRaise("AssertionError")
    ELSE IF eq.is_stochastic THEN NpRaise("IntegratorError")
    ELSE NpOk(Closure("RK4Alternative", Branch(eq), Zero, eq))

ExponentialEuler_get_nb_step(eq) ==
    IF Len(f_expressions(eq)) = 0 THEN NbRaise("IndexError")
    ELSE NbOk(Code("ExponentialEuler", Zero, eq, ExponentialEuler_code_lines(eq)))

ExponentialEuler_get_np_step(eq) ==
    IF ~eq.is_diff_eq THEN NpRaise("AssertionError")
    ELSE IF eq.is_stochastic /\ ~eq.g.callable /\ eq.g.kind # "const"
    THEN NpRaise("AssertionError")
    ELSE NpOk(Closure("ExponentialEuler", Branch(eq), Zero, eq))

MilsteinIto_get_nb_step(eq) ==
    IF eq.is_stochastic /\ eq.g.callable
    THEN IF Len(replace_f_expressions(eq, "test", (eq.var_name :> "test"))) = 0
         THEN Euler_get_nb_step(eq)
         ELSE NbOk(Code("MilsteinIto", Zero, eq, Milstein_code_lines(eq, TRUE)))
    ELSE Euler_get_nb_step(eq)

MilsteinIto_get_np_step(eq) ==
    IF ~eq.is_diff_eq THEN NpRaise("AssertionError")
    ELSE IF eq.is_stochastic /\ eq.g.callable
    THEN NpOk(Closure("MilsteinIto", Branch(eq), Zero, eq))
    ELSE Euler_get_np_step(eq)

MilsteinStra_get_nb_step(eq) ==
    IF eq.is_stochastic /\ eq.g.callable
    THEN IF Len(replace_f_expressions(eq, "test", (eq.var_name :> "test"))) = 0
         THEN Euler_get_nb_step(eq)
         ELSE NbOk(Code("MilsteinStra", Zero, eq, Milstein_code_lines(eq, FALSE)))
    ELSE Euler_get_nb_step(eq)

MilsteinStra_get_np_step(eq) ==
    IF ~eq.is_diff_eq THEN NpRaise("AssertionError")
    ELSE IF eq.is_stochastic /\ eq.g.callable
    THEN NpOk(Closure("MilsteinStra", Branch(eq), Zero, eq))
    ELSE Euler_get_np_step(eq)

\* ------------------------------------------------------------------------
\* Constructors
\* ------------------------------------------------------------------------

Object(cls, eq, beta, code, func) ==
    [cls |-> cls, diff_eq |-> eq.func_name, beta |-> beta,
     update_code |-> code, update_func |-> func]

NoObject == Object("None", NotAnEquation, Zero, NoCode, NoFunc)

Built(obj) == [raised |-> "None", obj |-> obj]
Failed(exc) == [raised |-> exc, obj |-> NoObject]

\* Integrator.__init__
Integrator_init(eq) ==
    IF ~eq.is_diff_eq THEN Failed("IntegratorError")
    ELSE Built(Object("Integrator", eq, Zero, NoCode, NoFunc))

NbSkipped == NbOk(NoCode)

\* the shared __init__ body with get_nb_step called whatever the backend flag
Scheme_init_eager(cls, eq, beta, nb, np) ==
    IF Integrator_init(eq).raised # "None" THEN Failed(Integrator_init(eq).raised)
    ELSE IF nb.raised # "None" THEN Failed(nb.raised)
    ELSE IF np.raised # "None" THEN Failed(np.raised)
    ELSE Built(Object(cls, eq, beta, nb.code, np.func))

\* The body shared by the __init__ of every scheme but ExponentialEuler:
\* super().__init__, then get_nb_step if the backend flag is on, then
\* get_np_step; the first exception leaves the constructor.
Scheme_init(cls, eq, beta, nb, np) ==
    IF Integrator_init(eq).raised # "None" THEN Failed(Integrator_init(eq).raised)
    ELSE LET code == IF is_numba_bk THEN nb ELSE NbSkipped
         IN  IF code.raised # "None" THEN Failed(code.raised)
             ELSE IF np.raised # "None" THEN Failed(np.raised)
             ELSE Built(Object(cls, eq, beta, code.code, np.func))

Euler_init(eq) ==
    Scheme_init("Euler", eq, Zero, Euler_get_nb_step(eq), Euler_get_np_step(eq))

\* RK2.__init__(diff_eq, beta=2 / 3)
RK2_init(eq, beta) ==
    Scheme_init("RK2", eq, beta, RK2_get_nb_step(eq, beta),
                RK2_get_np_step(eq, AsWritten("__beta"), beta))

Heun_init(eq) ==
    Scheme_init("Heun", eq, Zero, Heun_get_nb_step(eq), Heun_get_np_step(eq))

MidPoint_init(eq) ==
    Scheme_init("MidPoint", eq, Zero, MidPoint_get_nb_step(eq),
                MidPoint_get_np_step(eq))

RK3_init(eq) ==
    Scheme_init("RK3", eq, Zero, RK3_get_nb_step(eq), RK3_get_np_step(eq))

RK4_init(eq) ==
    Scheme_init("RK4", eq, Zero, RK4_get_nb_step(eq), RK4_get_np_step(eq))

RK4Alternative_init(eq) ==
    Scheme_init("RK4Alternative", eq, Zero, RK4Alternative_get_nb_step(eq),
                RK4Alternative_get_np_step(eq))

\* ExponentialEuler.__init__ without the test of profile._merge_integral
ExponentialEuler_init_unguarded(eq) ==
    Scheme_init("ExponentialEuler", eq, Zero, ExponentialEuler_get_nb_step(eq),
                ExponentialEuler_get_np_step(eq))

\* ExponentialEuler.__init__: the generated code first, then the test of
\* profile._merge_integral, then the closure
ExponentialEuler_init(eq) ==
    IF Integrator_init(eq).raised # "None" THEN Failed(Integrator_init(eq).raised)
    ELSE LET code == IF is_numba_bk THEN ExponentialEuler_get_nb_step(eq)
                     ELSE NbSkipped
             np == ExponentialEuler_get_np_step(eq)
         IN  IF code.raised # "None" THEN Failed(code.raised)
             ELSE IF ~merge_integral THEN Failed("IntegratorError")
             ELSE IF np.raised # "None" THEN Failed(np.raised)
             ELSE Built(Object("ExponentialEuler", eq, Zero, code.code, np.func))

MilsteinIto_init(eq) ==
    Scheme_init("MilsteinIto", eq, Zero, MilsteinIto_get_nb_step(eq),
                MilsteinIto_get_np_step(eq))

MilsteinStra_init(eq) ==
    Scheme_init("MilsteinStra", eq, Zero, MilsteinStra_get_nb_step(eq),
                MilsteinStra_get_np_step(eq))

Schemes ==
    {"Euler", "MidPoint", "Heun", "RK2", "RK3", "RK4", "RK4Alternative",
     "ExponentialEuler", "MilsteinIto", "MilsteinStra"}

\* calling the constructor get_integrator returned
New(cls, eq, beta) ==
    CASE cls = "Euler" -> Euler_init(eq)
      [] cls = "MidPoint" -> MidPoint_init(eq)
      [] cls = "Heun" -> Heun_init(eq)
      [] cls = "RK2" -> RK2_init(eq, beta)
      [] cls = "RK3" -> RK3_init(eq)
      [] cls = "RK4" -> RK4_init(eq)
      [] cls = "RK4Alternative" -> RK4Alternative_init(eq)
      [] cls = "ExponentialEuler" -> ExponentialEuler_init(eq)
      [] cls = "MilsteinIto" -> MilsteinIto_init(eq)
      [] cls = "MilsteinStra" -> MilsteinStra_init(eq)

\* ------------------------------------------------------------------------
\* The step closures
\* ------------------------------------------------------------------------

Two == <<2, 1>>
Three == <<3, 1>>
Four == <<4, 1>>

\* the result of 0.0 / 0.0 in numpy arithmetic
NaN == [a |-> <<0, 0>>, b |-> Zero, r |-> Zero]

\* np.exp on the rationals the model reaches, by the (1,1) Pade approximant
\* (2 + x) / (2 - x): exact at 0, positive and increasing for |x| < 2
ExpQ(x) == RDiv(RAdd(Two, x), RSub(Two, x))

IsMulti(c) == c.branch \in {"ode_multi", "sde_fn_multi", "sde_const_multi"}

\* val[k:] of a Python tuple, k counted from 0
From(val, k) == SubSeq(val, k + 1, Len(val))

Scalar(y, fcalls) ==
    [raised |-> "None", tuple |-> FALSE, vals |-> <<y>>, fcalls |-> fcalls]
Tuple(y, rest, fcalls) ==
    [raised |-> "None", tuple |-> TRUE, vals |-> <<y>> \o rest, fcalls |-> fcalls]
CallRaise(exc, fcalls) ==
    [raised |-> exc, tuple |-> FALSE, vals |-> <<>>, fcalls |-> fcalls]

\* return y, or (y,) + tuple(val[k:]) in the multi-return branches
Return(c, y, val, k, fcalls) ==
    IF IsMulti(c) THEN Tuple(y, From(val, k), fcalls) ELSE Scalar(y, fcalls)

\* Euler's int_f with the drift added without the factor dt
Euler_int_f_unscaled(c, y0, t, args, xi) ==
    LET val == FEval(c.f, y0, t, args)
    IN  Return(c, VAdd(y0, val[1]), val, 1, << <<y0, t>> >>)

\* Euler's int_f with the noise term without the factor sqrt(dt)
Euler_int_f_unit_noise(c, y0, t, args, xi) ==
    LET val == FEval(c.f, y0, t, args)
        gv == IF c.g.callable THEN GEval(c.g, y0, t, args) ELSE VQ(c.g.value)
        y == VAdd(VAdd(y0, VMul(val[1], VQ(c.dt))), VMul(gv, VQ(xi)))
    IN  IF c.branch \in {"ode", "ode_multi"}
        THEN Return(c, VAdd(y0, VMul(VQ(c.dt), val[1])), val, 1, << <<y0, t>> >>)
        ELSE Return(c, y, val, 1, << <<y0, t>> >>)

\* Euler's int_f reading the global dt when it is called
Euler_int_f_global_dt(c, y0, t, args, xi) ==
    LET val == FEval(c.f, y0, t, args)
        dt == VQ(get_dt)
        dt_sqrt == VSqrt(get_dt)
        dW == VQ(xi)
        calls == << <<y0, t>> >>
    IN  IF c.branch \in {"ode", "ode_multi"}
        THEN Return(c, VAdd(y0, VMul(dt, val[1])), val, 1, calls)
        ELSE LET df == VMul(val[1], dt)
                 gv == IF c.g.callable THEN GEval(c.g, y0, t, args)
                       ELSE VQ(c.g.value)
                 dg == VMul(VMul(dt_sqrt, gv), dW)
             IN  Return(c, VAdd(VAdd(y0, df), dg), val, 1, calls)

\* Euler.get_np_step: int_f
Euler_int_f(c, y0, t, args, xi) ==
    LET val == FEval(c.f, y0, t, args)
        dt == VQ(c.dt)
        dt_sqrt == VSqrt(c.dt)
        dW == VQ(xi)
        calls == << <<y0, t>> >>
    IN  IF c.branch \in {"ode", "ode_multi"}
        THEN Return(c, VAdd(y0, VMul(dt, val[1])), val, 1, calls)
        ELSE LET df == VMul(val[1], dt)
                 gv == IF c.g.callable THEN GEval(c.g, y0, t, args)
                       ELSE VQ(c.g.value)
                 dg == VMul(VMul(dt_sqrt, gv), dW)
             IN  Return(c, VAdd(VAdd(y0, df), dg), val, 1, calls)

\* RK2.get_np_step: int_f
RK2_int_f(c, y0, t, args, xi) ==
    LET dt == c.dt
        beta == c.beta
        val == FEval(c.f, y0, t, args)
        k1 == val[1]
        y2 == VAdd(y0, VScale(RMul(beta, dt), k1))
        t2 == RAdd(t, RMul(beta, dt))
        k2 == FEval(c.f, y2, t2, args)[1]
        w2 == RDiv(One, RMul(Two, beta))
        w1 == RSub(One, w2)
        y == VAdd(y0, VScale(dt, VAdd(VScale(w1, k1), VScale(w2, k2))))
    IN  Return(c, y, val, 1, << <<y0, t>>, <<y2, t2>> >>)

\* RK3.get_np_step: int_f
RK3_int_f(c, y0, t, args, xi) ==
    LET dt == c.dt
        val == FEval(c.f, y0, t, args)
        k1 == val[1]
        y2 == VAdd(y0, VScale(RDiv(dt, Two), k1))
        t2 == RAdd(t, RDiv(dt, Two))
        k2 == FEval(c.f, y2, t2, args)[1]
        y3 == VAdd(VSub(y0, VScale(dt, k1)), VScale(RMul(Two, dt), k2))
        t3 == RAdd(t, dt)
        k3 == FEval(c.f, y3, t3, args)[1]
        y == VAdd(y0, VScale(RDiv(dt, <<6, 1>>),
                             VAdd(VAdd(k1, VScale(Four, k2)), k3)))
    IN  Return(c, y, val, 1, << <<y0, t>>, <<y2, t2>>, <<y3, t3>> >>)

\* RK4's int_f returning the auxiliary outputs of its last stage evaluation
RK4_int_f_late_aux(c, y0, t, args, xi) ==
    LET dt == c.dt
        val == FEval(c.f, y0, t, args)
        k1 == val[1]
        y2 == VAdd(y0, VScale(RDiv(dt, Two), k1))
        t2 == RAdd(t, RDiv(dt, Two))
        k2 == FEval(c.f, y2, t2, args)[1]
        y3 == VAdd(y0, VScale(RDiv(dt, Two), k2))
        k3 == FEval(c.f, y3, t2, args)[1]
        y4 == VAdd(y0, VScale(dt, k3))
        t4 == RAdd(t, dt)
        k4 == FEval(c.f, y4, t4, args)[1]
        y == VAdd(y0, VScale(RDiv(dt, <<6, 1>>),
                     VAdd(VAdd(VAdd(k1, VScale(Two, k2)), VScale(Two, k3)), k4)))
    IN  Return(c, y, FEval(c.f, y4, t4, args), 1,
               << <<y0, t>>, <<y2, t2>>, <<y3, t2>>, <<y4, t4>> >>)

\* RK4's int_f with the third stage taken at the second stage's point from k1
RK4_int_f_stale_k3(c, y0, t, args, xi) ==
    LET dt == c.dt
        val == FEval(c.f, y0, t, args)
        k1 == val[1]
        y2 == VAdd(y0, VScale(RDiv(dt, Two), k1))
        t2 == RAdd(t, RDiv(dt, Two))
        k2 == FEval(c.f, y2, t2, args)[1]
        y3 == VAdd(y0, VScale(RDiv(dt, Two), k1))
        k3 == FEval(c.f, y3, t2, args)[1]
        y4 == VAdd(y0, VScale(dt, k3))
        t4 == RAdd(t, dt)
        k4 == FEval(c.f, y4, t4, args)[1]
        y == VAdd(y0, VScale(RDiv(dt, <<6, 1>>),
                     VAdd(VAdd(VAdd(k1, VScale(Two, k2)), VScale(Two, k3)), k4)))
    IN  Return(c, y, val, 1,
               << <<y0, t>>, <<y2, t2>>, <<y3, t2>>, <<y4, t4>> >>)

\* RK4.get_np_step: int_f
RK4_int_f(c, y0, t, args, xi) ==
    LET dt == c.dt
        val == FEval(c.f, y0, t, args)
        k1 == val[1]
        y2 == VAdd(y0, VScale(RDiv(dt, Two), k1))
        t2 == RAdd(t, RDiv(dt, Two))
        k2 == FEval(c.f, y2, t2, args)[1]
        y3 == VAdd(y0, VScale(RDiv(dt, Two), k2))
        k3 == FEval(c.f, y3, t2, args)[1]
        y4 == VAdd(y0, VScale(dt, k3))
        t4 == RAdd(t, dt)
        k4 == FEval(c.f, y4, t4, args)[1]
        y == VAdd(y0, VScale(RDiv(dt, <<6, 1>>),
                     VAdd(VAdd(VAdd(k1, VScale(Two, k2)), VScale(Two, k3)), k4)))
    IN  Return(c, y, val, 1,
               << <<y0, t>>, <<y2, t2>>, <<y3, t2>>, <<y4, t4>> >>)

\* RK4Alternative.get_np_step: int_f
RK4Alternative_int_f(c, y0, t, args, xi) ==
    LET dt == c.dt
        val == FEval(c.f, y0, t, args)
        k1 == val[1]
        y2 == VAdd(y0, VScale(RDiv(dt, Three), k1))
        t2 == RAdd(t, RDiv(dt, Three))
        k2 == FEval(c.f, y2, t2, args)[1]
        y3 == VAdd(VSub(y0, VScale(RDiv(dt, Three), k1)), VScale(dt, k2))
        t3 == RAdd(t, RDiv(RMul(Two, dt), Three))
        k3 == FEval(c.f, y3, t3, args)[1]
        y4 == VAdd(VSub(VAdd(y0, VScale(dt, k1)), VScale(dt, k2)), VScale(dt, k3))
        t4 == RAdd(t, dt)
        k4 == FEval(c.f, y4, t4, args)[1]
        y == VAdd(y0, VScale(RDiv(dt, <<8, 1>>),
                     VAdd(VAdd(VAdd(k1, VScale(Three, k2)), VScale(Three, k3)), k4)))
    IN  Return(c, y, val, 1,
               << <<y0, t>>, <<y2, t2>>, <<y3, t3>>, <<y4, t4>> >>)

\* Heun.get_np_step: int_f (stochastic, callable g)
Heun_int_f(c, y0, t, args, xi) ==
    LET dt == VQ(c.dt)
        dt_sqrt == VSqrt(c.dt)
        dW == VQ(xi)
        val == FEval(c.f, y0, t, args)
        df == VMul(val[1], dt)
        gn == GEval(c.g, y0, t, args)
        y_bar == VAdd(y0, VMul(VMul(gn, dW), dt_sqrt))
        gn_bar == GEval(c.g, y_bar, t, args)
        dg == VMul(VMul(VScale(Half, VAdd(gn, gn_bar)), dW), dt_sqrt)
    IN  Return(c, VAdd(VAdd(y0, df), dg), val, 1, << <<y0, t>> >>)

\* ExponentialEuler's int_f multiplying by the linear coefficient
ExponentialEuler_int_f_times(c, y0, t, args, xi) ==
    LET val == FEval(c.f, y0, t, args)
        calls == << <<y0, t>> >>
    IN  IF IsMulti(c) /\ Len(val) < 2 THEN CallRaise("IndexError", calls)
        ELSE IF ~IsMulti(c) /\ Len(val) = 1 THEN CallRaise("TypeError", calls)
        ELSE IF ~IsMulti(c) /\ Len(val) # 2 THEN CallRaise("ValueError", calls)
        ELSE
        LET dydt == val[1]
            linear_part == val[2].a
            dW == VQ(xi)
            gv == IF c.g.callable THEN GEval(c.g, y0, t, args)
                  ELSE VQ(c.g.value)
            dg == IF c.branch \in {"ode", "ode_multi"} THEN VQ(Zero)
                  ELSE VMul(VMul(VSqrt(c.dt), gv), dW)
            exp == ExpQ(RMul(linear_part, c.dt))
            y == IF linear_part = Zero THEN NaN
                 ELSE VAdd(VAdd(y0, VScale(RMul(RSub(exp, One), linear_part), dydt)),
                           VScale(exp, dg))
            k == IF c.branch = "sde_const_multi" THEN 1 ELSE 2
        IN  Return(c, y, val, k, calls)

\* ExponentialEuler's int_f with the division in plain Python arithmetic
ExponentialEuler_int_f_checked(c, y0, t, args, xi) ==
    LET val == FEval(c.f, y0, t, args)
        calls == << <<y0, t>> >>
    IN  IF IsMulti(c) /\ Len(val) < 2 THEN CallRaise("IndexError", calls)
        ELSE IF ~IsMulti(c) /\ Len(val) = 1 THEN CallRaise("TypeError", calls)
        ELSE IF ~IsMulti(c) /\ Len(val) # 2 THEN CallRaise("ValueError", calls)
        ELSE IF val[2].a = Zero THEN CallRaise("ZeroDivisionError", calls)
        ELSE
        LET dydt == val[1]
            linear_part == val[2].a
            dW == VQ(xi)
            gv == IF c.g.callable THEN GEval(c.g, y0, t, args)
                  ELSE VQ(c.g.value)
            dg == IF c.branch \in {"ode", "ode_multi"} THEN VQ(Zero)
                  ELSE VMul(VMul(VSqrt(c.dt), gv), dW)
            exp == ExpQ(RMul(linear_part, c.dt))
            y == IF linear_part = Zero THEN NaN
                 ELSE VAdd(VAdd(y0, VScale(RDiv(RSub(exp, One), linear_part), dydt)),
                           VScale(exp, dg))
            k == IF c.branch = "sde_const_multi" THEN 1 ELSE 2
        IN  Return(c, y, val, k, calls)

\* ExponentialEuler.get_np_step: int_f
ExponentialEuler_int_f(c, y0, t, args, xi) ==
    LET val == FEval(c.f, y0, t, args)
        calls == << <<y0, t>> >>
    IN  IF IsMulti(c) /\ Len(val) < 2 THEN CallRaise("IndexError", calls)
        ELSE IF ~IsMulti(c) /\ Len(val) = 1 THEN CallRaise("TypeError", calls)
        ELSE IF ~IsMulti(c) /\ Len(val) # 2 THEN CallRaise("ValueError", calls)
        ELSE
        LET dydt == val[1]
            linear_part == val[2].a
            dW == VQ(xi)
            gv == IF c.g.callable THEN GEval(c.g, y0, t, args)
                  ELSE VQ(c.g.value)
            dg == IF c.branch \in {"ode", "ode_multi"} THEN VQ(Zero)
                  ELSE VMul(VMul(VSqrt(c.dt), gv), dW)
            exp == ExpQ(RMul(linear_part, c.dt))
            y == IF linear_part = Zero THEN NaN
                 ELSE VAdd(VAdd(y0, VScale(RDiv(RSub(exp, One), linear_part), dydt)),
                           VScale(exp, dg))
            k == IF c.branch = "sde_const_multi" THEN 1 ELSE 2
        IN  Return(c, y, val, k, calls)

\* MilsteinIto's int_fg with the second diffusion evaluation at t + dt
MilsteinIto_int_fg_late(c, y0, t, args, xi) ==
    LET dt == VQ(c.dt)
        dt_sqrt == VSqrt(c.dt)
        dW == VQ(xi)
        val == FEval(c.f, y0, t, args)
        df == VMul(val[1], dt)
        g_n == GEval(c.g, y0, t, args)
        dg == VMul(VMul(g_n, dW), dt_sqrt)
        y_n_bar == VAdd(VAdd(y0, df), VMul(g_n, dt_sqrt))
        g_n_bar == GEval(c.g, y_n_bar, RAdd(t, c.dt), args)
        y1 == VAdd(VAdd(VAdd(y0, df), dg),
                   VMul(VScale(Half, VSub(g_n_bar, g_n)),
                        VSub(VMul(VMul(dW, dW), dt_sqrt), dt_sqrt)))
    IN  Return(c, y1, val, 1, << <<y0, t>> >>)

\* MilsteinIto's int_fg with the predictor without the drift
MilsteinIto_int_fg_no_drift(c, y0, t, args, xi) ==
    LET dt == VQ(c.dt)
        dt_sqrt == VSqrt(c.dt)
        dW == VQ(xi)
        val == FEval(c.f, y0, t, args)
        df == VMul(val[1], dt)
        g_n == GEval(c.g, y0, t, args)
        dg == VMul(VMul(g_n, dW), dt_sqrt)
        y_n_bar == VAdd(y0, VMul(g_n, dt_sqrt))
        g_n_bar == GEval(c.g, y_n_bar, t, args)
        y1 == VAdd(VAdd(VAdd(y0, df), dg),
                   VMul(VScale(Half, VSub(g_n_bar, g_n)),
                        VSub(VMul(VMul(dW, dW), dt_sqrt), dt_sqrt)))
    IN  Return(c, y1, val, 1, << <<y0, t>> >>)

\* MilsteinIto.get_np_step: int_fg
MilsteinIto_int_fg(c, y0, t, args, xi) ==
    LET dt == VQ(c.dt)
        dt_sqrt == VSqrt(c.dt)
        dW == VQ(xi)
        val == FEval(c.f, y0, t, args)
        df == VMul(val[1], dt)
        g_n == GEval(c.g, y0, t, args)
        dg == VMul(VMul(g_n, dW), dt_sqrt)
        y_n_bar == VAdd(VAdd(y0, df), VMul(g_n, dt_sqrt))
        g_n_bar == GEval(c.g, y_n_bar, t, args)
        y1 == VAdd(VAdd(VAdd(y0, df), dg),
                   VMul(VScale(Half, VSub(g_n_bar, g_n)),
                        VSub(VMul(VMul(dW, dW), dt_sqrt), dt_sqrt)))
    IN  Return(c, y1, val, 1, << <<y0, t>> >>)

\* MilsteinStra's int_fg with the correction term of MilsteinIto
MilsteinStra_int_fg_shifted(c, y0, t, args, xi) ==
    LET dt == VQ(c.dt)
        dt_sqrt == VSqrt(c.dt)
        dW == VQ(xi)
        val == FEval(c.f, y0, t, args)
        df == VMul(val[1], dt)
        g_n == GEval(c.g, y0, t, args)
        dg == VMul(VMul(g_n, dW), dt_sqrt)
        y_n_bar == VAdd(VAdd(y0, df), VMul(g_n, dt_sqrt))
        g_n_bar == GEval(c.g, y_n_bar, t, args)
        extra_term == VMul(VScale(Half, VSub(g_n_bar, g_n)),
                           VSub(VMul(VMul(dW, dW), dt_sqrt), dt_sqrt))
    IN  Return(c, VAdd(VAdd(VAdd(y0, df), dg), extra_term), val, 1,
               << <<y0, t>> >>)

\* MilsteinStra.get_np_step: int_fg
MilsteinStra_int_fg(c, y0, t, args, xi) ==
    LET dt == VQ(c.dt)
        dt_sqrt == VSqrt(c.dt)
        dW == VQ(xi)
        val == FEval(c.f, y0, t, args)
        df == VMul(val[1], dt)
        g_n == GEval(c.g, y0, t, args)
        dg == VMul(VMul(g_n, dW), dt_sqrt)
        y_n_bar == VAdd(VAdd(y0, df), VMul(g_n, dt_sqrt))
        g_n_bar == GEval(c.g, y_n_bar, t, args)
        extra_term == VMul(VScale(Half, VSub(g_n_bar, g_n)),
                           VMul(VMul(dW, dW), dt_sqrt))
    IN  Return(c, VAdd(VAdd(VAdd(y0, df), dg), extra_term), val, 1,
               << <<y0, t>> >>)

\* self._update_func(y0, t, *args)
Apply(c, y0, t, args, xi) ==
    CASE c.cls = "Euler" -> Euler_int_f(c, y0, t, args, xi)
      [] c.cls = "RK2" -> RK2_int_f(c, y0, t, args, xi)
      [] c.cls = "RK3" -> RK3_int_f(c, y0, t, args, xi)
      [] c.cls = "RK4" -> RK4_int_f(c, y0, t, args, xi)
      [] c.cls = "RK4Alternative" -> RK4Alternative_int_f(c, y0, t, args, xi)
      [] c.cls = "Heun" -> Heun_int_f(c, y0, t, args, xi)
      [] c.cls = "ExponentialEuler" -> ExponentialEuler_int_f(c, y0, t, args, xi)
      [] c.cls = "MilsteinIto" -> MilsteinIto_int_fg(c, y0, t, args, xi)
      [] c.cls = "MilsteinStra" -> MilsteinStra_int_fg(c, y0, t, args, xi)

\* ------------------------------------------------------------------------
\* Executing generated code
\* ------------------------------------------------------------------------

\* the value of an expression in a namespace; a NaN operand gives NaN
RECURSIVE Eval(_, _)
Eval(e, env) ==
    LET k == [i \in DOMAIN e.kids |-> Eval(e.kids[i], env)]
    IN  CASE e.op = "sym" -> env[e.name]
          [] e.op = "lit" -> e.val
          [] e.op = "tuple" -> k
          [] e.op = "normal" -> env["_normal_sample_"]
          [] \E i \in DOMAIN k : k[i] = NaN -> NaN
          [] e.op = "+" -> VAdd(k[1], k[2])
          [] e.op = "-" -> VSub(k[1], k[2])
          [] e.op = "*" -> VMul(k[1], k[2])
          [] e.op = "/" -> IF k[2].a = Zero THEN NaN
                           ELSE VScale(RDiv(One, k[2].a), k[1])
          [] e.op = "exp" -> VQ(ExpQ(k[1].a))

\* the namespace after the statements from the i-th on have run
RECURSIVE Exec(_, _, _)
Exec(lines, i, env) ==
    IF i > Len(lines) THEN env
    ELSE Exec(lines, i + 1,
              (lines[i][1] :> Eval(lines[i][2], env)) @@ env)

\* The generated code run as the merged update routine runs it: the state
\* variable, the time and the renamed arguments are bound, the noise draw
\* gives xi, and the result is read from _{func_name}_res.
Run(code, eq, y0, t, args, xi) ==
    LET words == (eq.var_name :> y0) @@ (eq.t_name :> VQ(t))
                    @@ ("_normal_sample_" :> VQ(xi))
        bound == [n \in {"_" \o eq.func_name \o "_" \o eq.func_args[i] :
                            i \in DOMAIN eq.func_args} |->
                    VQ(args[CHOOSE i \in DOMAIN eq.func_args :
                               n = "_" \o eq.func_name \o "_" \o eq.func_args[i]])]
    IN  Exec(code.lines, 1, bound @@ words)["_" \o eq.func_name \o "_res"]

\* ------------------------------------------------------------------------
\* Inputs
\* ------------------------------------------------------------------------

MaxIntegrators == 1
MaxCased == 4

Min(a, b) == IF a < b THEN a ELSE b

Registered ==
    {N_euler, N_midpoint, N_heun, N_rk2, N_rk3, N_rk4, N_rk4_alternative,
     N_exponential, N_milstein, N_milstein_ito, N_milstein_stra}

Unregistered ==
    { <<"n", "o", "t", "_", "a", "_", "m", "e", "t", "h", "o", "d">>,
      <<"r", "k", "5">>,
      <<"r", "k", "_", "4">>,
      <<"e", "u", "l", "e", "r", " ">>,
      <<"m", "i", "l", "s", "t", "e", "i", "n", "_">>,
      <<>> }

\* s with the characters at the positions in S in upper case
Cased(s, S) == [i \in 1..Len(s) |-> IF i \in S THEN UpperChar(s[i]) ELSE s[i]]

CaseVariants(s) ==
    {Cased(s, S) : S \in SUBSET (1..Min(Len(s), MaxCased))}
        \cup {Cased(s, 1..Len(s))}

MethodInputs == UNION {CaseVariants(s) : s \in Registered \cup Unregistered}

\* the (y0, t) a call is made at
Points == { <<One, Zero>>, <<Half, Zero>>, <<One, Half>> }
ArgValues == {<<-1, 1>>, Two}
NoiseValues == {<<-1, 1>>, Half}
Betas == {<<2, 3>>, Half}

\* the extra positional arguments a call passes: one per name in func_args
ArgTuples(eq) ==
    IF Len(eq.func_args) = 0 THEN {<<>>} ELSE {<<a>> : a \in ArgValues}

IsStochasticFunc(c) ==
    c.branch \in {"sde_fn", "sde_fn_multi", "sde_const", "sde_const_multi"}

\* ------------------------------------------------------------------------
\* brainpy/dyn/base.py: ConstantDelay
\* ------------------------------------------------------------------------

\* The indices are uint32 arrays.  A delay is >= 0, so every value stored in
\* them lies in 0 .. num_step and no operation on them wraps.

\* math.ceil and numpy.around (halves go to the even neighbour) of q
Ceil(q) == -((-q[1]) \div q[2])

Around(q) ==
    LET f == q[1] \div q[2]
        r == q[1] - f * q[2]
    IN  IF 2 * r < q[2] THEN f
        ELSE IF 2 * r > q[2] THEN f + 1
        ELSE IF f % 2 = 0 THEN f ELSE f + 1

MaxOf(s) == CHOOSE m \in {s[j] : j \in DOMAIN s} : \A j \in DOMAIN s : s[j] <= m

\* bm.zeros((rows, size)): row r of the array is data[r], r counted from 0
Zeros(rows, size) == [r \in 0..(rows - 1) |-> [j \in 1..size |-> 0]]

NoDelay == [uniform |-> "None"]

\* the delay argument: a float (uniform) or a 1-D array (one delay a column)
UniformDelay(q) == [uniform |-> TRUE, value |-> q]
ArrayDelay(qs) == [uniform |-> FALSE, value |-> qs]

\* ConstantDelay.__init__(size, delay, dt=dt) with an int size
ConstantDelay_init(size, d, dt) ==
    IF d.uniform
    THEN LET num_step == Ceil(RDiv(d.value, dt)) + 1
         IN  [uniform |-> TRUE, size |-> size, dt |-> dt, delay |-> d.value,
              num_step |-> <<num_step>>,
              out_idx |-> <<0>>,
              in_idx |-> <<num_step - 1>>,
              data |-> Zeros(num_step, size)]
    ELSE LET num_step ==
                 [j \in 1..size |-> Around(RDiv(d.value[j], dt)) + 1]
         IN  [uniform |-> FALSE, size |-> size, dt |-> dt, delay |-> d.value,
              num_step |-> num_step,
              out_idx |-> [j \in 1..size |-> 0],
              in_idx |-> [j \in 1..size |-> num_step[j] - 1],
              data |-> Zeros(MaxOf(num_step), size)]

\* ConstantDelay.pull(): the row at out_idx, or the diagonal pick
ConstantDelay_pull(c) ==
    IF c.uniform
    THEN c.data[c.out_idx[1]]
    ELSE [j \in 1..c.size |-> c.data[c.out_idx[j]][j]]

\* ConstantDelay.latest
ConstantDelay_latest(c) ==
    IF c.uniform
    THEN c.data[c.in_idx[1]]
    ELSE [j \in 1..c.size |-> c.data[c.in_idx[j]][j]]

\* ConstantDelay.push(value)
ConstantDelay_push(c, value) ==
    IF c.uniform
    THEN [c EXCEPT !.data[c.in_idx[1]] = value]
    ELSE [c EXCEPT !.data =
             [r \in DOMAIN c.data |->
                 [j \in 1..c.size |->
                     IF r = c.in_idx[j] THEN value[j] ELSE c.data[r][j]]]]

\* ConstantDelay.update that advances the write index alone
ConstantDelay_update_in_only(c) ==
    LET n(j) == IF c.uniform THEN c.num_step[1] ELSE c.num_step[j]
    IN  [c EXCEPT
            !.in_idx = [j \in DOMAIN c.in_idx |-> (c.in_idx[j] + 1) % n(j)]]

\* ConstantDelay.update(): both indices advance modulo num_step
ConstantDelay_update(c) ==
    LET n(j) == IF c.uniform THEN c.num_step[1] ELSE c.num_step[j]
    IN  [c EXCEPT
            !.in_idx = [j \in DOMAIN c.in_idx |-> (c.in_idx[j] + 1) % n(j)],
            !.out_idx = [j \in DOMAIN c.out_idx |-> (c.out_idx[j] + 1) % n(j)]]

\* ConstantDelay.reset()
ConstantDelay_reset(c) ==
    LET n(j) == IF c.uniform THEN c.num_step[1] ELSE c.num_step[j]
    IN  [c EXCEPT
            !.in_idx = [j \in DOMAIN c.in_idx |-> n(j) - 1],
            !.out_idx = [j \in DOMAIN c.out_idx |-> 0],
            !.data = [r \in DOMAIN c.data |-> [j \in 1..c.size |-> 0]]]

\* ------------------------------------------------------------------------
\* brainpy/dyn/neurons/reduced_models.py: LIF and HindmarshRose
\* ------------------------------------------------------------------------

RLeq(x, y) == x[1] * y[2] <= y[1] * x[2]
RLess(x, y) == x[1] * y[2] < y[1] * x[2]

\* the time no neuron has spiked at: bm.ones(size) * -1e7
NeverSpiked == -10000000

\* the deterministic initializers of brainpy.initialize
ZeroInit == [cls |-> "ZeroInit", value |-> Zero]
OneInit(value) == [cls |-> "OneInit", value |-> value]

\* init_param(initializer, (num,)): the initializer's array of that shape
init_param(initializer, num) == [i \in 1..num |-> initializer.value]

Filled(num, x) == [i \in 1..num |-> x]

NoGroup == [cls |-> "None"]

\* LIF.__init__(size, V_reset=.., V_th=.., tau_ref=.., V_initializer=..)
LIF_init(num, V_reset, V_th, tau_ref, V_initializer) ==
    [cls |-> "LIF", num |-> num,
     V_reset |-> V_reset, V_th |-> V_th, tau_ref |-> tau_ref,
     V_initializer |-> V_initializer,
     V |-> init_param(V_initializer, num),
     input |-> Filled(num, Zero),
     spike |-> Filled(num, FALSE),
     t_last_spike |-> Filled(num, Q(NeverSpiked, 1)),
     refractory |-> Filled(num, FALSE)]

\* LIF.reset()
LIF_reset(g) ==
    [g EXCEPT !.V = init_param(g.V_initializer, g.num),
              !.input = Filled(g.num, Zero),
              !.spike = Filled(g.num, FALSE),
              !.t_last_spike = Filled(g.num, Q(NeverSpiked, 1)),
              !.refractory = Filled(g.num, FALSE)]

\* LIF.update without the hold of the refractory neurons
LIF_update_no_hold(g, t, integrated) ==
    LET refractory ==
            [i \in 1..g.num |-> RLeq(RSub(t, g.t_last_spike[i]), g.tau_ref)]
        spike == [i \in 1..g.num |-> RLeq(g.V_th, integrated[i])]
    IN  [g EXCEPT
            !.t_last_spike =
                [i \in 1..g.num |-> IF spike[i] THEN t ELSE g.t_last_spike[i]],
            !.V = [i \in 1..g.num |->
                      IF spike[i] THEN g.V_reset ELSE integrated[i]],
            !.refractory = [i \in 1..g.num |-> refractory[i] \/ spike[i]],
            !.spike = spike,
            !.input = Filled(g.num, Zero)]

\* LIF.update(t, dt); `integrated` is what self.integral(self.V, t,
\* self.input, dt=dt) returned
LIF_update(g, t, integrated) ==
    LET refractory ==
            [i \in 1..g.num |-> RLeq(RSub(t, g.t_last_spike[i]), g.tau_ref)]
        V_new ==
            [i \in 1..g.num |-> IF refractory[i] THEN g.V[i] ELSE integrated[i]]
        spike == [i \in 1..g.num |-> RLeq(g.V_th, V_new[i])]
    IN  [g EXCEPT
            !.t_last_spike =
                [i \in 1..g.num |-> IF spike[i] THEN t ELSE g.t_last_spike[i]],
            !.V = [i \in 1..g.num |-> IF spike[i] THEN g.V_reset ELSE V_new[i]],
            !.refractory = [i \in 1..g.num |-> refractory[i] \/ spike[i]],
            !.spike = spike,
            !.input = Filled(g.num, Zero)]

\* HindmarshRose.__init__(size, V_th=.., V_initializer=.., y_initializer=..,
\* z_initializer=..): z is created from V_initializer and V from
\* z_initializer
HindmarshRose_init(num, V_th, V_initializer, y_initializer, z_initializer) ==
    [cls |-> "HindmarshRose", num |-> num, V_th |-> V_th,
     V_initializer |-> V_initializer,
     y_initializer |-> y_initializer,
     z_initializer |-> z_initializer,
     z |-> init_param(V_initializer, num),
     y |-> init_param(y_initializer, num),
     V |-> init_param(z_initializer, num),
     input |-> Filled(num, Zero),
     spike |-> Filled(num, FALSE)]

\* HindmarshRose.reset()
HindmarshRose_reset(g) ==
    [g EXCEPT !.V = init_param(g.V_initializer, g.num),
              !.y = init_param(g.y_initializer, g.num),
              !.z = init_param(g.z_initializer, g.num),
              !.input = Filled(g.num, Zero),
              !.spike = Filled(g.num, FALSE)]

\* HindmarshRose.update(t, dt); `integrated` is the <<V, y, z>> that
\* self.integral(self.V, self.y, self.z, t, self.input, dt=dt) returned
HindmarshRose_update(g, integrated) ==
    LET V_new == integrated[1]
    IN  [g EXCEPT
            !.spike = [i \in 1..g.num |->
                          RLeq(g.V_th, V_new[i]) /\ RLess(g.V[i], g.V_th)],
            !.V = V_new,
            !.y = integrated[2],
            !.z = integrated[3],
            !.input = Filled(g.num, Zero)]

\* the caller of the dynamical systems: how many updates it has run, the
\* values it pushed (one a step) and what its step does next
NoRun == [updates |-> 0, pushed |-> <<>>, phase |-> "idle"]

DynIdle ==
    /\ group = NoGroup
    /\ delay = NoDelay
    /\ run = NoRun

\* ------------------------------------------------------------------------
\* State machine
\* ------------------------------------------------------------------------

Init ==
    /\ profile \in [dt : DtValues, numba_bk : BOOLEAN, merge_integral : BOOLEAN]
    /\ diff_eq \in Equations
    /\ integrators = <<>>
    /\ DynIdle
    /\ last = [op |-> "none"]

\* profile.set_dt(dt)
SetDt(d) ==
    /\ d # profile.dt
    /\ profile' = [profile EXCEPT !.dt = d]
    /\ last' = [op |-> "set_dt"]
    /\ UNCHANGED <<diff_eq, integrators, group, delay, run>>

\* profile.set_backend(...)
SetBackend(b) ==
    /\ b # profile.numba_bk
    /\ profile' = [profile EXCEPT !.numba_bk = b]
    /\ last' = [op |-> "set_backend"]
    /\ UNCHANGED <<diff_eq, integrators, group, delay, run>>

\* profile._merge_integral = b
SetMergeIntegral(b) ==
    /\ b # profile.merge_integral
    /\ profile' = [profile EXCEPT !.merge_integral = b]
    /\ last' = [op |-> "set_merge_integral"]
    /\ UNCHANGED <<diff_eq, integrators, group, delay, run>>

\* get_integrator(method)
Lookup(method) ==
    /\ last' = [op |-> "get_integrator", method |-> method,
                result |-> get_integrator(method)]
    /\ UNCHANGED <<profile, diff_eq, integrators, group, delay, run>>

\* cls(arg) or RK2(arg, beta): the constructor call. The caller keeps the
\* MaxIntegrators most recent integrators; an older one is dropped.
Keep(objs) == IF Len(objs) > MaxIntegrators THEN Tail(objs) ELSE objs

Construct(cls, arg, beta) ==
    LET res == New(cls, arg, beta)
    IN  /\ integrators' = IF res.raised = "None"
                          THEN Keep(Append(integrators, res.obj))
                          ELSE integrators
        /\ last' = [op |-> "construct", cls |-> cls, beta |-> beta,
                    arg |-> arg, raised |-> res.raised]
        /\ UNCHANGED <<profile, diff_eq, group, delay, run>>

\* a call that discards the generated code of the integrator it is made on
Call_discarding(i, y0, t, args, xi) ==
    /\ last' = [op |-> "call", self |-> i, y0 |-> y0, t |-> t, args |-> args,
                xi |-> xi,
                result |-> Apply(integrators[i].update_func, VQ(y0), t, args, xi)]
    /\ integrators' = [integrators EXCEPT ![i].update_code = NoCode]
    /\ UNCHANGED <<profile, diff_eq, group, delay, run>>

\* Integrator.__call__(y0, t, *args); xi is the normal sample the closure
\* draws, if it draws one
Call(i, y0, t, args, xi) ==
    /\ last' = [op |-> "call", self |-> i, y0 |-> y0, t |-> t, args |-> args,
                xi |-> xi,
                result |-> Apply(integrators[i].update_func, VQ(y0), t, args, xi)]
    /\ UNCHANGED <<profile, diff_eq, integrators, group, delay, run>>

\* Integrator.py_func_name
py_func_name(i) ==
    /\ last' = [op |-> "py_func_name", self |-> i, value |-> diff_eq.func_name]
    /\ UNCHANGED <<profile, diff_eq, integrators, group, delay, run>>

\* Integrator.update_code
update_code(i) ==
    /\ last' = [op |-> "update_code", self |-> i,
                value |-> integrators[i].update_code]
    /\ UNCHANGED <<profile, diff_eq, integrators, group, delay, run>>

\* Integrator.update_func
update_func(i) ==
    /\ last' = [op |-> "update_func", self |-> i,
                value |-> integrators[i].update_func]
    /\ UNCHANGED <<profile, diff_eq, integrators, group, delay, run>>

\* Integrator.code_scope: scope is the DiffEquation's own dictionary
code_scope(i) ==
    /\ diff_eq' = [diff_eq EXCEPT
                     !.func_scope = @ \cup {"_normal_sample_", "np"}]
    /\ last' = [op |-> "code_scope", self |-> i,
                value |-> diff_eq.func_scope \cup {"_normal_sample_", "np"}]
    /\ UNCHANGED <<profile, integrators, group, delay, run>>

Configure ==
    \/ \E d \in DtValues : SetDt(d)
    \/ \E b \in BOOLEAN : SetBackend(b)
    \/ \E b \in BOOLEAN : SetMergeIntegral(b)

LookupStep == \E m \in MethodInputs : Lookup(m)

\* a constructor called with the DiffEquation
ConstructStep ==
    \E cls \in Schemes :
        \E beta \in (IF cls = "RK2" THEN Betas ELSE {Zero}) :
            Construct(cls, diff_eq, beta)

\* a constructor called with something else
MisuseStep == \E cls \in Schemes : Construct(cls, NotAnEquation, Zero)

CallStep ==
    \E i \in DOMAIN integrators :
        \E pt \in Points, args \in ArgTuples(diff_eq) :
            \E xi \in (IF IsStochasticFunc(integrators[i].update_func)
                       THEN NoiseValues ELSE {Zero}) :
                Call(i, pt[1], pt[2], args, xi)

ReadStep ==
    \E i \in DOMAIN integrators :
        \/ py_func_name(i)
        \/ update_code(i)
        \/ update_func(i)
        \/ code_scope(i)

Next ==
    Configure \/ LookupStep \/ ConstructStep \/ MisuseStep \/ CallStep \/ ReadStep

Spec == Init /\ [][Next]_vars

\* the registry alone, from one initial state
InitRegistry ==
    /\ profile = ProfileInit
    /\ diff_eq = DiffEquation("int_decay", <<>>, "decay", FALSE, NoG)
    /\ integrators = <<>>
    /\ DynIdle
    /\ last = [op |-> "none"]

SpecRegistry == InitRegistry /\ [][LookupStep]_vars

\* construction under every configuration
NextConstruct == ConstructStep \/ MisuseStep

SpecConstruct == Init /\ [][NextConstruct]_vars

\* construction, calls and property reads under every configuration
NextUse == ConstructStep \/ CallStep \/ ReadStep

\* both step sizes and both backends, with the merged-integral mode the
\* callers of ExponentialEuler need
UseProfiles ==
    { [dt |-> Q(1, 10), numba_bk |-> FALSE, merge_integral |-> TRUE],
      [dt |-> Q(1, 4), numba_bk |-> TRUE, merge_integral |-> TRUE] }

InitUse == Init /\ profile \in UseProfiles

SpecUse == InitUse /\ [][NextUse]_vars

\* ExponentialEuler on the equations made for it, the coefficient passed as
\* the argument a, zero included
ExpArgValues == ArgValues \cup {Zero}

ExpConstructStep == Construct("ExponentialEuler", diff_eq, Zero)

ExpCallStep ==
    \E i \in DOMAIN integrators :
        \E pt \in Points, a \in ExpArgValues :
            \E xi \in (IF IsStochasticFunc(integrators[i].update_func)
                       THEN NoiseValues ELSE {Zero}) :
                Call(i, pt[1], pt[2], <<a>>, xi)

NextExp == ExpConstructStep \/ ExpCallStep

InitExp ==
    /\ profile \in UseProfiles
    /\ diff_eq \in ExpEquations
    /\ integrators = <<>>
    /\ DynIdle
    /\ last = [op |-> "none"]

SpecExp == InitExp /\ [][NextExp]_vars

\* Euler and RK4 integrators built and called while the step size and the
\* backend flag are changed
DtEquations ==
    { DiffEquation("int_decay", <<>>, "decay", FALSE, NoG),
      DiffEquation("int_drive", <<"a">>, "drive", FALSE, NoG) }

DtConfigure ==
    \/ \E d \in DtValues : SetDt(d)
    \/ \E b \in BOOLEAN : SetBackend(b)

DtConstructStep == \E cls \in {"Euler", "RK4"} : Construct(cls, diff_eq, Zero)

NextDt == DtConfigure \/ DtConstructStep \/ CallStep

InitDt ==
    /\ profile \in [dt : DtValues, numba_bk : BOOLEAN, merge_integral : {FALSE}]
    /\ diff_eq \in DtEquations
    /\ integrators = <<>>
    /\ DynIdle
    /\ last = [op |-> "none"]

SpecDt == InitDt /\ [][NextDt]_vars

\* construction from equations an analysis left incomplete
InitMalformed ==
    /\ profile \in [dt : DtValues, numba_bk : BOOLEAN, merge_integral : BOOLEAN]
    /\ diff_eq \in MalformedEquations
    /\ integrators = <<>>
    /\ DynIdle
    /\ last = [op |-> "none"]

SpecMalformed == InitMalformed /\ [][NextConstruct]_vars

\* ------------------------------------------------------------------------
\* State machine of the dynamical systems: a neuron group and a delay
\* ------------------------------------------------------------------------

intvars == <<profile, diff_eq, integrators>>

MaxUpdates == 4

GroupSizes == {1, 2}

\* the step of the runner, and the time of its next update
RunDt == Q(1, 10)
RunTime == RMul(Q(run.updates, 1), RunDt)

Potentials == {Q(-5, 1), Zero, Q(20, 1)}
LIFResets == {Q(-5, 1), Q(25, 1)}
LIFRefractoryPeriods == {Zero, Q(1, 5)}

HRPotentials == {Zero, Q(2, 1)}
HRRecoveries == {Zero, Q(-10, 1)}
HRInitializers == {ZeroInit, OneInit(Q(2, 1))}

InitDyn ==
    /\ profile = [dt |-> RunDt, numba_bk |-> FALSE, merge_integral |-> FALSE]
    /\ diff_eq = NotAnEquation
    /\ integrators = <<>>
    /\ DynIdle
    /\ last = [op |-> "none"]

\* LIF(size, V_reset=.., V_th=20., tau_ref=.., V_initializer=ZeroInit())
LIFConstructStep ==
    /\ group = NoGroup
    /\ \E num \in GroupSizes, V_reset \in LIFResets,
          tau_ref \in LIFRefractoryPeriods :
           group' = LIF_init(num, V_reset, Q(20, 1), tau_ref, ZeroInit)
    /\ last' = [op |-> "neu_init"]
    /\ UNCHANGED <<intvars, delay, run>>

\* HindmarshRose(size, V_th=1., V_initializer=.., y_initializer=OneInit(-10.),
\* z_initializer=..)
HRConstructStep ==
    /\ group = NoGroup
    /\ \E num \in GroupSizes, V_initializer \in HRInitializers,
          z_initializer \in HRInitializers :
           group' = HindmarshRose_init(num, One, V_initializer,
                                       OneInit(Q(-10, 1)), z_initializer)
    /\ last' = [op |-> "neu_init"]
    /\ UNCHANGED <<intvars, delay, run>>

\* a synapse adds its current: post.input += I
NeuInput ==
    /\ group # NoGroup
    /\ group.input = Filled(group.num, Zero)
    /\ group' = [group EXCEPT !.input = Filled(group.num, One)]
    /\ last' = [op |-> "neu_input"]
    /\ UNCHANGED <<intvars, delay, run>>

\* the runner's step: group.update(t, dt) at t = i * dt
LIFUpdateStep ==
    /\ group.cls = "LIF"
    /\ run.updates < MaxUpdates
    /\ \E integrated \in [1..group.num -> Potentials] :
           group' = LIF_update(group, RunTime, integrated)
    /\ run' = [run EXCEPT !.updates = @ + 1]
    /\ last' = [op |-> "neu_update", t |-> RunTime]
    /\ UNCHANGED <<intvars, delay>>

HRUpdateStep ==
    /\ group.cls = "HindmarshRose"
    /\ run.updates < MaxUpdates
    /\ \E Vs \in [1..group.num -> HRPotentials],
          ys \in [1..group.num -> HRRecoveries] :
           group' = HindmarshRose_update(group, <<Vs, ys, ys>>)
    /\ run' = [run EXCEPT !.updates = @ + 1]
    /\ last' = [op |-> "neu_update", t |-> RunTime]
    /\ UNCHANGED <<intvars, delay>>

\* group.reset()
NeuReset ==
    /\ group # NoGroup
    /\ group' = IF group.cls = "LIF" THEN LIF_reset(group)
                                     ELSE HindmarshRose_reset(group)
    /\ last' = [op |-> "neu_reset"]
    /\ UNCHANGED <<intvars, delay, run>>

NextNeurons ==
    \/ LIFConstructStep
    \/ HRConstructStep
    \/ NeuInput
    \/ LIFUpdateStep
    \/ HRUpdateStep
    \/ NeuReset

SpecNeurons == InitDyn /\ [][NextNeurons]_vars

\* the delays a ConstantDelay of two columns is built with
DelayTimes == {Zero, Q(1, 10), Q(1, 4)}
PushValues == {<<1, 2>>, <<2, 1>>}

\* ConstantDelay(size=2, delay=.., dt=..)
DelayConstructStep ==
    /\ delay = NoDelay
    /\ \E dt \in DtValues :
           \/ \E q \in DelayTimes :
                  delay' = ConstantDelay_init(2, UniformDelay(q), dt)
           \/ \E qs \in [1..2 -> DelayTimes] :
                  delay' = ConstantDelay_init(2, ArrayDelay(qs), dt)
    /\ run' = [NoRun EXCEPT !.phase = "push"]
    /\ last' = [op |-> "delay_init"]
    /\ UNCHANGED <<intvars, group>>

DelayPush(value) ==
    /\ delay # NoDelay
    /\ delay' = ConstantDelay_push(delay, value)
    /\ last' = [op |-> "delay_push", value |-> value]
    /\ UNCHANGED <<intvars, group>>

DelayPull ==
    /\ delay # NoDelay
    /\ last' = [op |-> "delay_pull", value |-> ConstantDelay_pull(delay)]
    /\ UNCHANGED <<intvars, group, delay, run>>

DelayUpdate ==
    /\ delay # NoDelay
    /\ delay' = ConstantDelay_update(delay)
    /\ last' = [op |-> "delay_update"]
    /\ UNCHANGED <<intvars, group>>

DelayReset ==
    /\ delay # NoDelay
    /\ delay' = ConstantDelay_reset(delay)
    /\ run' = [NoRun EXCEPT !.phase = "push"]
    /\ last' = [op |-> "delay_reset"]
    /\ UNCHANGED <<intvars, group>>

\* the four operations in any order
FreePush == \E value \in PushValues : DelayPush(value) /\ UNCHANGED run
FreeUpdate == DelayUpdate /\ UNCHANGED run

NextDelay == DelayConstructStep \/ FreePush \/ DelayPull \/ FreeUpdate \/ DelayReset

SpecDelay == InitDyn /\ [][NextDelay]_vars

\* a run: each step pushes one value and then updates
RunPush ==
    /\ run.phase = "push"
    /\ run.updates < MaxUpdates
    /\ \E value \in PushValues :
           /\ DelayPush(value)
           /\ run' = [run EXCEPT !.pushed = Append(@, value),
                                 !.phase = "update"]

RunUpdate ==
    /\ run.phase = "update"
    /\ DelayUpdate
    /\ run' = [run EXCEPT !.updates = @ + 1, !.phase = "push"]

NextDelayRun == DelayConstructStep \/ RunPush \/ DelayPull \/ RunUpdate \/ DelayReset

SpecDelayRun == InitDyn /\ [][NextDelayRun]_vars

\* ------------------------------------------------------------------------
\* Properties of the registry (SpecRegistry)
\* ------------------------------------------------------------------------

\* C1: get_integrator maps each of the eleven registered names to its scheme
\* constructor; 'milstein' and 'milstein_ito' both give MilsteinIto.
C1_RegistryMapsNames ==
    last.op = "get_integrator" =>
        /\ last.method = <<"e", "u", "l", "e", "r">>
              => last.result = Returned("Euler")
        /\ last.method = <<"m", "i", "d", "p", "o", "i", "n", "t">>
              => last.result = Returned("MidPoint")
        /\ last.method = <<"h", "e", "u", "n">>
              => last.result = Returned("Heun")
        /\ last.method = <<"r", "k", "2">> => last.result = Returned("RK2")
        /\ last.method = <<"r", "k", "3">> => last.result = Returned("RK3")
        /\ last.method = <<"r", "k", "4">> => last.result = Returned("RK4")
        /\ last.method = N_rk4_alternative
              => last.result = Returned("RK4Alternative")
        /\ last.method = N_exponential
              => last.result = Returned("ExponentialEuler")
        /\ last.method = N_milstein_stra
              => last.result = Returned("MilsteinStra")
        /\ last.method \in {N_milstein, N_milstein_ito}
              => last.result = Returned("MilsteinIto")

C1_Witness ==
    /\ last.op = "get_integrator"
    /\ last.method = N_milstein_ito
    /\ last.result = Returned("MilsteinIto")

\* C2: every upper/lower-case variant of a registered name returns what the
\* all-lowercase name returns, and that is a constructor.
C2_CaseInsensitive ==
    (last.op = "get_integrator" /\ Lower(last.method) \in Registered) =>
        /\ last.result.raised = "None"
        /\ \A m \in MethodInputs :
              Lower(m) = Lower(last.method) => get_integrator(m) = last.result

C2_Witness ==
    /\ last.op = "get_integrator"
    /\ last.method = <<"R", "K", "4">>
    /\ last.result = Returned("RK4")

\* C3: a string whose lowercase form is not registered gives no constructor
\* but a ValueError whose message names the string the caller passed.
C3_ErrorNamesPassedString ==
    (last.op = "get_integrator" /\ Lower(last.method) \notin Registered) =>
        last.result = Raised("ValueError", last.method)

\* ------------------------------------------------------------------------
\* Properties of construction (SpecConstruct)
\* ------------------------------------------------------------------------

\* C4: RK2, RK3, RK4, RK4Alternative and MidPoint constructed on a stochastic
\* equation raise a capability error (NotImplementedError or IntegratorError)
\* and yield no integrator, for both values of the backend flag.
C4_StochasticRejected ==
    /\ (/\ last.op = "construct"
        /\ last.cls \in {"RK2", "RK3", "RK4", "RK4Alternative", "MidPoint"}
        /\ last.arg.is_diff_eq
        /\ last.arg.is_stochastic)
          => last.raised \in {"NotImplementedError", "IntegratorError"}
    /\ diff_eq.is_stochastic =>
          \A i \in DOMAIN integrators :
              integrators[i].cls \notin
                  {"RK2", "RK3", "RK4", "RK4Alternative", "MidPoint"}

\* C5: with the merged-integral flag off, constructing ExponentialEuler
\* raises and leaves no ExponentialEuler integrator, for every equation and
\* both backend flags; with the flag on, construction on an equation
\* succeeds and the integrator has its step closure.
C5_ExponentialEulerNeedsMerge ==
    /\ ~profile.merge_integral =>
          /\ (last.op = "construct" /\ last.cls = "ExponentialEuler")
                => last.raised = "IntegratorError"
          /\ \A i \in DOMAIN integrators :
                integrators[i].cls # "ExponentialEuler"
    /\ (/\ profile.merge_integral
        /\ last.op = "construct"
        /\ last.cls = "ExponentialEuler"
        /\ last.arg.is_diff_eq)
          => /\ last.raised = "None"
             /\ integrators[Len(integrators)].cls = "ExponentialEuler"
             /\ integrators[Len(integrators)].update_func # NoFunc

C5_Witness ==
    /\ ~profile.merge_integral
    /\ profile.numba_bk
    /\ last.op = "construct"
    /\ last.cls = "ExponentialEuler"
    /\ last.arg.is_diff_eq
    /\ last.arg.is_stochastic
    /\ last.raised = "IntegratorError"

\* C6: a construction that succeeds yields an integrator whose update_func
\* is present and whose update_code is present exactly if the backend flag
\* is on at that construction.
C6_ClosureAlwaysCodeIffFlag ==
    [][(last'.op = "construct" /\ last'.raised = "None") =>
          LET obj == integrators'[Len(integrators')]
          IN  /\ obj.cls = last'.cls
              /\ obj.update_func # NoFunc
              /\ (obj.update_code # NoCode) <=> profile.numba_bk]_vars

C6_Witness ==
    /\ last.op = "construct"
    /\ last.cls = "MilsteinIto"
    /\ last.raised = "None"
    /\ ~profile.numba_bk
    /\ integrators[Len(integrators)].update_func # NoFunc
    /\ integrators[Len(integrators)].update_code = NoCode

\* C10: for every deterministic equation MidPoint(equation) is constructed
\* and its step closure is the one of RK2 with beta = 1/2.
C10_MidPointIsRK2Half ==
    (/\ last.op = "construct"
     /\ last.cls = "MidPoint"
     /\ last.arg.is_diff_eq
     /\ ~last.arg.is_stochastic)
        => /\ last.raised = "None"
           /\ integrators[Len(integrators)].update_func =
                  Closure("RK2", Branch(last.arg), Half, last.arg)

\* ------------------------------------------------------------------------
\* Properties of calls and property reads (SpecUse)
\* ------------------------------------------------------------------------

\* C7: a call changes no field of any integrator.
C7_CallLeavesIntegrator ==
    [][last'.op = "call" => integrators' = integrators]_vars

C7_Witness ==
    /\ last.op = "call"
    /\ last.result.raised = "None"
    /\ integrators[last.self].update_code # NoCode
    /\ integrators[last.self].update_func # NoFunc

\* C8: constructions, calls and property reads leave every field of the
\* shared DiffEquation, its function scope included, as it was.
C8_EquationUntouched == diff_eq \in Equations

\* C9: Euler on a deterministic single-return equation returns
\* y0 + dt * f(y0, t, *args) after one evaluation of f, at (y0, t); for
\* dy/dt = -y, y0 = 1, t = 0, dt = 1/10 that is 9/10.
C9_EulerStep ==
    (/\ last.op = "call"
     /\ integrators[last.self].cls = "Euler"
     /\ ~diff_eq.is_stochastic
     /\ ~diff_eq.is_multi_return)
        => LET a == IF Len(last.args) > 0 THEN last.args[1] ELSE Zero
               f == IF diff_eq.func_name = "int_decay" THEN RNeg(last.y0)
                    ELSE RAdd(RMul(a, last.y0), last.t)
               y1 == RAdd(last.y0, RMul(profile.dt, f))
           IN  /\ last.result.raised = "None"
               /\ ~last.result.tuple
               /\ last.result.vals = <<VQ(y1)>>
               /\ last.result.fcalls = << <<VQ(last.y0), last.t>> >>
               /\ (/\ diff_eq.func_name = "int_decay"
                   /\ last.y0 = One
                   /\ last.t = Zero
                   /\ profile.dt = Q(1, 10))
                     => last.result.vals = <<VQ(Q(9, 10))>>

C9_Witness ==
    /\ last.op = "call"
    /\ integrators[last.self].cls = "Euler"
    /\ diff_eq.func_name = "int_decay"
    /\ last.y0 = One
    /\ last.t = Zero
    /\ profile.dt = Q(1, 10)
    /\ last.result.vals = <<VQ(Q(9, 10))>>
    /\ Len(last.result.fcalls) = 1

\* ------------------------------------------------------------------------
\* Properties of the stochastic and multi-return steps (SpecUse)
\* ------------------------------------------------------------------------

\* C11: for a stochastic equation with a constant diffusion coefficient g, a
\* Heun step gives the Euler-Maruyama value y0 + f(y0, t)*dt + sqrt(dt)*g*xi
\* for the noise draw xi, followed by the auxiliary outputs, both by the
\* closure and by running the generated code.
C11_HeunConstantNoiseIsEuler ==
    \A i \in DOMAIN integrators :
        (/\ integrators[i].cls = "Heun"
         /\ diff_eq.is_stochastic
         /\ ~diff_eq.g.callable) =>
            LET o == integrators[i]
                Maruyama(y0, t, args, xi) ==
                    LET val == FEval(diff_eq.f, VQ(y0), t, args)
                        y == VAdd(VAdd(VQ(y0), VScale(profile.dt, val[1])),
                                  VScale(RMul(diff_eq.g.value, xi),
                                         VSqrt(profile.dt)))
                    IN  <<y>> \o (IF diff_eq.is_multi_return THEN From(val, 1)
                                  ELSE <<>>)
            IN  /\ (last.op = "call" /\ last.self = i) =>
                      /\ last.result.raised = "None"
                      /\ last.result.vals =
                            Maruyama(last.y0, last.t, last.args, last.xi)
                /\ o.update_code # NoCode =>
                      \A pt \in Points, args \in ArgTuples(diff_eq),
                         xi \in NoiseValues :
                          Run(o.update_code, diff_eq, VQ(pt[1]), pt[2], args, xi)
                              = Maruyama(pt[1], pt[2], args, xi)

C11_Witness ==
    /\ last.op = "call"
    /\ integrators[last.self].cls = "Heun"
    /\ integrators[last.self].update_code.gen = "Euler"
    /\ diff_eq.func_name = "int_sde_const"
    /\ last.xi = Half
    /\ last.result.raised = "None"
    /\ last.result.vals # <<VAdd(VQ(last.y0), VScale(profile.dt, VNeg(VQ(last.y0))))>>

\* C12: a MilsteinIto or MilsteinStra step returns the Euler-Maruyama state
\* y0 + f(y0, t)*dt + sqrt(dt)*g*xi when the diffusion is a constant or a
\* function of the time alone, and the Euler state y0 + f(y0, t)*dt on a
\* deterministic equation.
C12_MilsteinDegeneratesToEuler ==
    (/\ last.op = "call"
     /\ integrators[last.self].cls \in {"MilsteinIto", "MilsteinStra"}
     /\ diff_eq.g.kind \in {"None", "const", "time"}) =>
        LET g == CASE diff_eq.g.kind = "None" -> Zero
                   [] diff_eq.g.kind = "const" -> diff_eq.g.value
                   [] diff_eq.g.kind = "time" -> RAdd(One, last.t)
            f == FEval(diff_eq.f, VQ(last.y0), last.t, last.args)[1]
        IN  /\ last.result.raised = "None"
            /\ last.result.vals[1] =
                  VAdd(VAdd(VQ(last.y0), VScale(profile.dt, f)),
                       VScale(RMul(g, last.xi), VSqrt(profile.dt)))

C12_Witness ==
    /\ last.op = "call"
    /\ integrators[last.self].cls = "MilsteinIto"
    /\ integrators[last.self].update_func.cls = "MilsteinIto"
    /\ diff_eq.g.kind = "time"
    /\ last.xi = Half
    /\ last.result.raised = "None"

\* C14: on a multi-return equation a step of a scheme other than
\* ExponentialEuler returns the new state followed by the auxiliary outputs
\* of the drift at the original (y0, t, args): for the drift returning
\* (a*y, a, y + t) these are a and y0 + t.
C14_AuxiliaryFromOriginalPoint ==
    /\ (/\ last.op = "call"
        /\ integrators[last.self].cls # "ExponentialEuler"
        /\ diff_eq.is_multi_return) =>
            /\ last.result.raised = "None"
            /\ last.result.tuple
            /\ From(last.result.vals, 1) =
                  <<VQ(last.args[1]), VQ(RAdd(last.y0, last.t))>>
    /\ \A i \in DOMAIN integrators :
          (/\ integrators[i].cls # "ExponentialEuler"
           /\ integrators[i].update_code # NoCode
           /\ diff_eq.is_multi_return) =>
              \A pt \in Points, args \in ArgTuples(diff_eq), xi \in NoiseValues :
                  From(Run(integrators[i].update_code, diff_eq, VQ(pt[1]), pt[2],
                           args, xi), 1)
                      = <<VQ(args[1]), VQ(RAdd(pt[1], pt[2]))>>

C14_Witness ==
    /\ last.op = "call"
    /\ integrators[last.self].cls = "RK4"
    /\ diff_eq.is_multi_return
    /\ Len(last.result.fcalls) = 4
    /\ Len(last.result.vals) = 3

\* ------------------------------------------------------------------------
\* Properties of ExponentialEuler steps (SpecExp)
\* ------------------------------------------------------------------------

\* C13: for a deterministic drift returning (a*y, a, ...) with a # 0, an
\* ExponentialEuler step returns y0 + (e^(a*dt) - 1)/a * (a*y0), which is
\* y0 * e^(a*dt).
C13_ExponentialEulerLinear ==
    (/\ last.op = "call"
     /\ integrators[last.self].cls = "ExponentialEuler"
     /\ ~diff_eq.is_stochastic
     /\ last.args[1] # Zero) =>
        LET a == last.args[1]
            e == ExpQ(RMul(a, profile.dt))
        IN  /\ last.result.raised = "None"
            /\ last.result.vals[1] =
                  VQ(RAdd(last.y0, RMul(RDiv(RSub(e, One), a), RMul(a, last.y0))))
            /\ last.result.vals[1] = VQ(RMul(last.y0, e))

C13_Witness ==
    /\ last.op = "call"
    /\ integrators[last.self].cls = "ExponentialEuler"
    /\ diff_eq.func_name = "int_scale"
    /\ last.args = <<Two>>
    /\ last.y0 = One
    /\ profile.dt = Q(1, 4)
    /\ last.result.vals = <<VQ(Q(5, 3))>>

\* C15: on a multi-return equation an ExponentialEuler step returns the new
\* state followed by the auxiliary outputs after the linear coefficient: for
\* the drift returning (a*y, a, y + t) that is (y1, y0 + t).
C15_CoefficientConsumed ==
    (/\ last.op = "call"
     /\ integrators[last.self].cls = "ExponentialEuler"
     /\ diff_eq.is_multi_return) =>
        /\ last.result.raised = "None"
        /\ From(last.result.vals, 1) = <<VQ(RAdd(last.y0, last.t))>>

\* C19: an ExponentialEuler step with a zero linear coefficient raises
\* nothing and returns a state that is not a finite number, for the
\* deterministic and the stochastic equations alike.
C19_ZeroCoefficientNotFinite ==
    (/\ last.op = "call"
     /\ integrators[last.self].cls = "ExponentialEuler"
     /\ last.args[1] = Zero) =>
        /\ last.result.raised = "None"
        /\ last.result.vals[1] = NaN

C19_Witness ==
    /\ last.op = "call"
    /\ integrators[last.self].cls = "ExponentialEuler"
    /\ diff_eq.func_name = "int_scale_fn"
    /\ last.args = <<Zero>>
    /\ last.result.raised = "None"
    /\ last.result.vals = <<NaN>>

\* ------------------------------------------------------------------------
\* Properties of the generated code (SpecUse)
\* ------------------------------------------------------------------------

\* C16: running the generated statements on (y0, t, args) with a noise draw
\* assigns the state variable the value the step closure of the same
\* integrator returns for the same inputs and the same draw.
C16_CodeComputesClosure ==
    \A i \in DOMAIN integrators :
        integrators[i].update_code # NoCode =>
            \A pt \in Points, args \in ArgTuples(diff_eq),
               xi \in (IF diff_eq.is_stochastic THEN NoiseValues ELSE {Zero}) :
                LET r == Apply(integrators[i].update_func, VQ(pt[1]), pt[2],
                               args, xi)
                IN  r.raised = "None" =>
                        Run(integrators[i].update_code, diff_eq, VQ(pt[1]),
                            pt[2], args, xi)[1] = r.vals[1]

\* C17: every name the generated code assigns, the state variable aside,
\* starts with underscore + func_name, and the code the same scheme generates
\* for an equation with another func_name assigns none of these names.
C17_TemporariesCarryFuncName ==
    \A i \in DOMAIN integrators :
        LET o == integrators[i]
            Assigned(code) ==
                {code.lines[k][1] : k \in DOMAIN code.lines} \ {diff_eq.var_name}
            prefix == "_" \o diff_eq.func_name
        IN  o.update_code # NoCode =>
                /\ \A n \in Assigned(o.update_code) :
                      /\ Len(n) >= Len(prefix)
                      /\ SubSeq(n, 1, Len(prefix)) = prefix
                /\ \A e \in Equations :
                      (/\ e.func_name # diff_eq.func_name
                       /\ New(o.cls, e, o.beta).raised = "None") =>
                          Assigned(o.update_code)
                              \cap Assigned(New(o.cls, e, o.beta).obj.update_code)
                                  = {}

\* ------------------------------------------------------------------------
\* Properties of construction (SpecMalformed, SpecConstruct)
\* ------------------------------------------------------------------------

\* C18: a constructor given an equation with no derivative expression, or
\* with the stochastic flag set and no diffusion, raises.
C18_MalformedEquationRejected ==
    (/\ last.op = "construct"
     /\ last.arg \in MalformedEquations) => last.raised # "None"

\* C20: Heun on a deterministic equation is constructed, and its closure and
\* its generated code are those of RK2 with beta = 1.
C20_HeunIsTrapezoidalRK2 ==
    (/\ last.op = "construct"
     /\ last.cls = "Heun"
     /\ last.arg.is_diff_eq
     /\ ~last.arg.is_stochastic) =>
        /\ last.raised = "None"
        /\ integrators[Len(integrators)].update_func
              = Closure("RK2", Branch(last.arg), One, last.arg)
        /\ is_numba_bk =>
              integrators[Len(integrators)].update_code
                  = Code("RK2", One, last.arg, RK2_code_lines(last.arg, One))

\* ------------------------------------------------------------------------
\* The step formulas (SpecUse, SpecConstruct)
\* ------------------------------------------------------------------------

\* C21: with a diffusion function, a Heun step with draw xi returns
\* y0 + 1/2*(f(y0) + f(Y))*dt + 1/2*(g(y0) + g(Y))*sqrt(dt)*xi for the
\* predictor Y = y0 + f(y0)*dt + g(y0)*sqrt(dt)*xi.
C21_HeunAveragesDriftAndDiffusion ==
    (/\ last.op = "call"
     /\ integrators[last.self].cls = "Heun"
     /\ diff_eq.g.callable) =>
        LET y0 == VQ(last.y0)
            dW == VScale(last.xi, VSqrt(profile.dt))
            f0 == FEval(diff_eq.f, y0, last.t, last.args)[1]
            g0 == GEval(diff_eq.g, y0, last.t, last.args)
            Y == VAdd(VAdd(y0, VScale(profile.dt, f0)), VMul(g0, dW))
            fY == FEval(diff_eq.f, Y, last.t, last.args)[1]
            gY == GEval(diff_eq.g, Y, last.t, last.args)
        IN  /\ last.result.raised = "None"
            /\ last.result.vals[1] =
                  VAdd(VAdd(y0, VScale(RMul(Half, profile.dt), VAdd(f0, fY))),
                       VMul(VScale(Half, VAdd(g0, gY)), dW))

\* C22: RK2 on a deterministic equation is constructed with the weight it was
\* given, and its step returns
\* y0 + dt*((1 - 1/(2*beta))*k1 + 1/(2*beta)*k2), k1 = f(y0, t),
\* k2 = f(y0 + beta*dt*k1, t + beta*dt).
C22_RK2Step ==
    (/\ last.op = "construct"
     /\ last.cls = "RK2"
     /\ last.arg.is_diff_eq
     /\ ~last.arg.is_stochastic) =>
        /\ last.raised = "None"
        /\ integrators[Len(integrators)].beta = last.beta
        /\ \A pt \in Points, args \in ArgTuples(last.arg) :
              LET y0 == VQ(pt[1])
                  dt == profile.dt
                  w == RDiv(One, RMul(Two, last.beta))
                  k1 == FEval(last.arg.f, y0, pt[2], args)[1]
                  k2 == FEval(last.arg.f,
                              VAdd(y0, VScale(RMul(last.beta, dt), k1)),
                              RAdd(pt[2], RMul(last.beta, dt)), args)[1]
              IN  Apply(integrators[Len(integrators)].update_func, y0, pt[2],
                        args, Zero).vals[1]
                      = VAdd(y0, VScale(dt, VAdd(VScale(RSub(One, w), k1),
                                                 VScale(w, k2))))

\* C23: an RK4 step on a deterministic equation evaluates f at (y0, t),
\* (y0 + dt/2*k1, t + dt/2), (y0 + dt/2*k2, t + dt/2), (y0 + dt*k3, t + dt)
\* and returns y0 + dt/6*(k1 + 2*k2 + 2*k3 + k4); for dy/dt = -y that is
\* y0*(1 - dt + dt^2/2 - dt^3/6 + dt^4/24).
C23_RK4Step ==
    (/\ last.op = "call"
     /\ integrators[last.self].cls = "RK4"
     /\ ~diff_eq.is_stochastic) =>
        LET y0 == VQ(last.y0)
            dt == profile.dt
            h == RDiv(dt, Two)
            f(y, t) == FEval(diff_eq.f, y, t, last.args)[1]
            k1 == f(y0, last.t)
            k2 == f(VAdd(y0, VScale(h, k1)), RAdd(last.t, h))
            k3 == f(VAdd(y0, VScale(h, k2)), RAdd(last.t, h))
            k4 == f(VAdd(y0, VScale(dt, k3)), RAdd(last.t, dt))
            taylor == RAdd(RSub(RAdd(RSub(One, dt), RDiv(RMul(dt, dt), Two)),
                                RDiv(RMul(dt, RMul(dt, dt)), <<6, 1>>)),
                           RDiv(RMul(RMul(dt, dt), RMul(dt, dt)), <<24, 1>>))
        IN  /\ last.result.raised = "None"
            /\ last.result.vals[1] =
                  VAdd(y0, VScale(RDiv(dt, <<6, 1>>),
                                  VAdd(VAdd(k1, VScale(Two, k2)),
                                       VAdd(VScale(Two, k3), k4))))
            /\ last.result.fcalls =
                  << <<y0, last.t>>,
                     <<VAdd(y0, VScale(h, k1)), RAdd(last.t, h)>>,
                     <<VAdd(y0, VScale(h, k2)), RAdd(last.t, h)>>,
                     <<VAdd(y0, VScale(dt, k3)), RAdd(last.t, dt)>> >>
            /\ diff_eq.f = "decay" =>
                  last.result.vals[1] = VQ(RMul(last.y0, taylor))

C23_Witness ==
    /\ last.op = "call"
    /\ integrators[last.self].cls = "RK4"
    /\ diff_eq.func_name = "int_decay"
    /\ last.y0 = One
    /\ profile.dt = Q(1, 10)
    /\ last.result.vals = <<VQ(Q(217161, 240000))>>

\* C24: with a diffusion function, a MilsteinIto step with draw xi and
\* dW = sqrt(dt)*xi returns
\* y0 + f(y0)*dt + g(y0)*dW + 1/2*(g(Y) - g(y0))*(dW^2 - dt)/sqrt(dt) for the
\* predictor Y = y0 + f(y0)*dt + g(y0)*sqrt(dt).
C24_MilsteinItoStep ==
    (/\ last.op = "call"
     /\ integrators[last.self].cls = "MilsteinIto"
     /\ diff_eq.g.callable) =>
        LET y0 == VQ(last.y0)
            dt == profile.dt
            root == VSqrt(dt)
            dW == VScale(last.xi, root)
            f0 == FEval(diff_eq.f, y0, last.t, last.args)[1]
            g0 == GEval(diff_eq.g, y0, last.t, last.args)
            Y == VAdd(VAdd(y0, VScale(dt, f0)), VMul(g0, root))
            gY == GEval(diff_eq.g, Y, last.t, last.args)
            \* (dW^2 - dt)/sqrt(dt) = (xi^2 - 1)*sqrt(dt)
            shift == VScale(RSub(RMul(last.xi, last.xi), One), root)
        IN  /\ last.result.raised = "None"
            /\ VMul(shift, root) = VSub(VMul(dW, dW), VQ(dt))
            /\ last.result.vals[1] =
                  VAdd(VAdd(VAdd(y0, VScale(dt, f0)), VMul(g0, dW)),
                       VMul(VScale(Half, VSub(gY, g0)), shift))

C24_Witness ==
    /\ last.op = "call"
    /\ integrators[last.self].cls = "MilsteinIto"
    /\ diff_eq.g.kind = "state"
    /\ last.xi = Half
    /\ last.result.raised = "None"
    /\ GEval(diff_eq.g, VQ(last.y0), last.t, last.args) # VQ(Zero)

InRefractoryWindow(g, i, t) ==
    /\ g.t_last_spike[i] # Q(NeverSpiked, 1)
    /\ RLeq(g.t_last_spike[i], t)
    /\ RLeq(RSub(t, g.t_last_spike[i]), g.tau_ref)

\* C27: a LIF neuron that spikes in an update at time ts leaves it with
\* V = V_reset and t_last_spike = ts; every later update at a time t with
\* t - ts <= tau_ref marks the neuron refractory, leaves its V at V_reset
\* whatever was integrated and, when V_reset < V_th, emits no spike; and
\* every update ends with the input at 0.
C27_LIFRefractoryClamp ==
    [][(last'.op = "neu_update" /\ group.cls = "LIF") =>
          \A i \in 1..group.num :
              /\ group'.input[i] = Zero
              /\ group'.spike[i] =>
                     /\ group'.V[i] = group.V_reset
                     /\ group'.t_last_spike[i] = last'.t
              /\ InRefractoryWindow(group, i, last'.t) =>
                     /\ group'.refractory[i]
                     /\ group'.V[i] = group.V_reset
                     /\ RLess(group.V_reset, group.V_th) => ~group'.spike[i]
      ]_vars

\* an update inside the refractory window of a neuron that spiked earlier:
\* the neuron is held at V_reset, marked refractory and silent
C27_Witness ==
    /\ last.op = "neu_update"
    /\ group.cls = "LIF"
    /\ group.tau_ref # Zero
    /\ \E i \in 1..group.num :
           /\ RLess(group.t_last_spike[i], last.t)
           /\ InRefractoryWindow(group, i, last.t)
           /\ group.refractory[i]
           /\ ~group.spike[i]
           /\ group.V[i] = group.V_reset

\* ------------------------------------------------------------------------
\* C28: ConstantDelay indices
\* ------------------------------------------------------------------------

\* the columns of the index arrays, and the ring length of column j
IndexColumns(c) == DOMAIN c.in_idx
StepsOf(c, j) == IF c.uniform THEN c.num_step[1] ELSE c.num_step[j]

IndicesInRange(c) ==
    \A j \in IndexColumns(c) :
        /\ 0 <= c.in_idx[j] /\ c.in_idx[j] < StepsOf(c, j)
        /\ 0 <= c.out_idx[j] /\ c.out_idx[j] < StepsOf(c, j)
        /\ c.in_idx[j] = (c.out_idx[j] + StepsOf(c, j) - 1) % StepsOf(c, j)

\* C28: after construction and after any sequence of push, pull, update and
\* reset, for a uniform delay and for every element of a non-uniform one,
\* 0 <= in_idx < num_step, 0 <= out_idx < num_step and
\* in_idx = (out_idx + num_step - 1) mod num_step; push and pull change no
\* index.
C28_DelayIndices ==
    /\ [](delay # NoDelay => IndicesInRange(delay))
    /\ [][last'.op \in {"delay_push", "delay_pull"} =>
             /\ delay'.in_idx = delay.in_idx
             /\ delay'.out_idx = delay.out_idx]_vars

\* a non-uniform delay whose two columns have rings of different length,
\* after an update that wrapped the write index of the first column only
C28_Witness ==
    /\ last.op = "delay_update"
    /\ delay.uniform = FALSE
    /\ delay.num_step = <<2, 3>>
    /\ delay.in_idx = <<0, 1>>
    /\ delay.out_idx = <<1, 2>>
    /\ delay.data[0][1] # 0

\* ------------------------------------------------------------------------
\* C29: ConstantDelay delivery
\* ------------------------------------------------------------------------

\* the delay column j was built with, and the argument of the constructor
DelayOf(c, j) == IF c.uniform THEN c.delay ELSE c.delay[j]
DelayArgument(c) ==
    IF c.uniform THEN UniformDelay(c.delay) ELSE ArrayDelay(c.delay)

\* how many updates had run when the value due in column j was pushed
PushedAt(c, r, j) == r.updates - (StepsOf(c, j) - 1)

\* every pushed value whose turn has not passed is still in its slot
NothingOverwritten(c, r, j) ==
    \A k \in 1..Len(r.pushed) :
        (k - 1) + (StepsOf(c, j) - 1) >= r.updates =>
            c.data[(k - 2 + StepsOf(c, j)) % StepsOf(c, j)][j] = r.pushed[k][j]

\* C29: in a run without reset in which each step pushes a value and then
\* updates, pull() returns the value pushed exactly
\* num_step - 1 = ceil(delay / dt) updates earlier, and the initial zero
\* before that many updates have run; no pushed value is overwritten before
\* its turn; and reset() returns indices and data to their state right
\* after construction.
C29_DeliveredAfterDelay ==
    /\ delay # NoDelay =>
           \A j \in 1..delay.size :
               /\ StepsOf(delay, j) - 1 = Ceil(RDiv(DelayOf(delay, j), delay.dt))
               /\ NothingOverwritten(delay, run, j)
               /\ last.op = "delay_pull" =>
                      IF PushedAt(delay, run, j) < 0
                      THEN last.value[j] = 0
                      ELSE PushedAt(delay, run, j) < Len(run.pushed) =>
                               last.value[j] =
                                   run.pushed[PushedAt(delay, run, j) + 1][j]
    /\ last.op = "delay_reset" =>
           delay = ConstantDelay_init(delay.size, DelayArgument(delay), delay.dt)

\* ------------------------------------------------------------------------
\* C30: reset of a neuron group
\* ------------------------------------------------------------------------

\* the group right after construction with the arguments g was built with
Constructed(g) ==
    IF g.cls = "LIF"
    THEN LIF_init(g.num, g.V_reset, g.V_th, g.tau_ref, g.V_initializer)
    ELSE HindmarshRose_init(g.num, g.V_th, g.V_initializer, g.y_initializer,
                            g.z_initializer)

\* C30: reset() of a neuron group, after any updates, restores every state
\* variable to the value it had right after construction with the same
\* initializers; for HindmarshRose that is V from V_initializer, y from
\* y_initializer, z from z_initializer, input = 0 and spike = False.
C30_ResetRestoresConstruction ==
    last.op = "neu_reset" =>
        /\ group = Constructed(group)
        /\ group.cls = "HindmarshRose" =>
               /\ group.V = init_param(group.V_initializer, group.num)
               /\ group.y = init_param(group.y_initializer, group.num)
               /\ group.z = init_param(group.z_initializer, group.num)
               /\ group.input = Filled(group.num, Zero)
               /\ group.spike = Filled(group.num, FALSE)

====
